---------------------------- MODULE Spec2Model ----------------------------
(***************************************************************************)
(* Ride dispatch and lifecycle of tuktuk-group-rides (src/bot).            *)
(*                                                                         *)
(* The ledger is the PostgreSQL database behind AsyncDB (src/bot/db.py):   *)
(* every AsyncDB method that runs one SQL statement is one atomic step.    *)
(* A handler of src/bot/rides.py is a coroutine; it can be suspended at    *)
(* each await of an AsyncDB call, so a handler is a sequence of steps and  *)
(* the steps of different handler invocations interleave freely.           *)
(*                                                                         *)
(* A nullable column is a tuple: <<>> is SQL NULL, <<v>> is the value v.   *)
(***************************************************************************)
EXTENDS Integers, Sequences, FiniteSets, TLC

\* ------------------------------------------------------------------ bounds
\* Rides ever created (the rides table's SERIAL id runs 1..MaxRides).
MaxRides == 1
\* Handler invocations in flight at the same time.
NumTasks == 2
\* Last value the wall clock int(time.time()) takes (it starts at 1).
MaxTime == 2
\* Ratings ever submitted (rows of the ratings table).
MaxRatings == 3
\* Calls of update_driver_rating per driver when they are applied one
\* after the other.
MaxCalls == 7

\* The largest group size handed to calculate_fare_estimate.
MaxGroup == 3

\* The highest id the drivers sequence hands out.
MaxDriverId == 4
\* Rides in the table when a rider pages through the ride history.
MaxHistory == 6

\* ------------------------------------------------------------------ values
NULL == <<>>

\* Telegram ids of the users that talk to the bot.
Users == {"u1", "u2", "u3"}

\* The users that request rides: one who is no driver and one who is.
Riders == {"u1", "u2"}

\* The drivers table in the initial state: u2 and u3 have registered
\* (drivers.id is a SERIAL, so they hold ids 1 and 2); u1 has not.
DriverIdOf == [u \in {"u2", "u3"} |-> IF u = "u2" THEN 1 ELSE 2]

RideIds == 1..MaxRides
TaskIds == 1..NumTasks

\* rides.status values written by src/bot (db.py:171,196,213; rides.py:219,418).
Statuses == {"searching", "assigned", "driver_assigned", "completed", "cancelled"}

\* Final fares handed to update_ride_fare.
Fares == {250}

\* The scores the rating keyboard offers (rating_buttons).
RatingButtons == 1..5

\* Scores carried by a 'rate:<ride>:<score>' callback: callback data is
\* client-supplied text, so a score the keyboard does not offer can arrive.
Scores == {1, 3, 5, 7}

VARIABLES
    drivers,   \* drivers table: telegram_id -> row (registered users only)
    rides,     \* rides table: sequence of rows, the index is rides.id
    ratings,   \* ratings table: sequence of rows
    tasks,     \* handler invocations: TaskIds -> locals and position
    won,       \* history: per ride, the driver ids whose claim returned True
    lost,      \* history: per ride, the driver ids whose claim on the row returned False
    scored,    \* history: per driver id, how often each score was passed
               \*          to update_driver_rating
    reply,     \* what the latest step told the caller of its handler
               \*          ("none": nothing, "raised": the handler ended
               \*           with an exception)
    sent,      \* the notifications the latest step delivered to other chats
    conv,      \* ride_conv: per rider, the state of the request conversation
    user_data, \* context.user_data: per rider, what the conversation has
               \*          stored (kept when a conversation ends)
    call       \* the call a specification follows: of an estimate function
               \*          of bot/utils.py, its arguments and, once it has
               \*          returned, its value; of add_or_update_driver, the
               \*          arguments of the latest call that committed; of
               \*          confirm_callback, the callback query of the
               \*          latest call

vars == <<drivers, rides, ratings, tasks, won, lost, scored, reply, sent,
          conv, user_data, call>>

\* ------------------------------------------------------------------ decimals
\* drivers.rating is a DECIMAL column without scale: asyncpg hands it to
\* Python as a decimal.Decimal and stores the Decimal it is given digit for
\* digit.  Decimal arithmetic rounds every result to the precision of the
\* default context, half to even.
Prec == 28

\* A Decimal below 100 is kept in groups of LimbDigits decimal digits, most
\* significant first: the first group is the integer part and the
\* Prec - 1 digits after the point fill the other groups.  (Every value the
\* model computes is 0 or lies in 1..99; a value in 1..99 has at most
\* Prec - 1 digits after the point once rounded to Prec significant digits.)
LimbDigits == 3

Base == 10 ^ LimbDigits

DecLen == 1 + (Prec - 1) \div LimbDigits

\* Decimal(n) for an int n in 0..99.
DecOfInt(n) == [i \in 1..DecLen |-> IF i = 1 THEN n ELSE 0]

\* x plus amount units of the group at position pos.
RECURSIVE DecInc(_, _, _)
DecInc(x, pos, amount) ==
    IF amount = 0 THEN x
    ELSE IF pos = 1 THEN [x EXCEPT ![1] = @ + amount]
    ELSE LET cur == x[pos] + amount
         IN  DecInc([x EXCEPT ![pos] = cur % Base], pos - 1, cur \div Base)

\* Rounding to Prec significant digits, ROUND_HALF_EVEN: a value of 10 or
\* more loses its last digit; more is TRUE when the exact value has
\* non-zero digits beyond the last group.
DecRound(x, more) ==
    IF x[1] < 10 THEN x
    ELSE LET d    == x[DecLen] % 10
             up   == \/ d > 5
                     \/ d = 5 /\ more
                     \/ d = 5 /\ ~more /\ (x[DecLen] \div 10) % 2 = 1
             kept == [x EXCEPT ![DecLen] = @ - d]
         IN  IF up THEN DecInc(kept, DecLen, 10) ELSE kept

\* x * n from position i leftwards: carry comes from the groups to the
\* right, done holds the groups already produced.
RECURSIVE MulFrom(_, _, _, _, _)
MulFrom(x, n, i, carry, done) ==
    IF i = 0 THEN done
    ELSE LET cur == x[i] * n + carry
         IN  IF i = 1 THEN MulFrom(x, n, 0, 0, <<cur>> \o done)
             ELSE MulFrom(x, n, i - 1, cur \div Base, <<cur % Base>> \o done)

\* Decimal * int (the int is small: total_ratings).
DecMul(x, n) == DecRound(MulFrom(x, n, DecLen, 0, <<>>), FALSE)

\* Decimal + int (the int is small: a score).
DecAdd(x, s) == DecRound([x EXCEPT ![1] = @ + s], FALSE)

\* The long division x / m from position i rightwards: rem is the remainder
\* left by the groups before i, done holds the quotient groups so far.  The
\* result is the quotient, rounded to Prec significant digits.
RECURSIVE DivFrom(_, _, _, _, _)
DivFrom(x, m, i, rem, done) ==
    IF i > DecLen
    THEN IF done[1] >= 10 THEN DecRound(done, rem # 0)
         ELSE IF 2 * rem > m \/ (2 * rem = m /\ done[DecLen] % 2 = 1)
              THEN DecInc(done, DecLen, 1)
              ELSE done
    ELSE LET cur == rem * Base + x[i]
         IN  DivFrom(x, m, i + 1, cur % m, Append(done, cur \div m))

\* Decimal / int (the int is small: total_ratings + 1).
DecDiv(x, m) == DivFrom(x, m, 1, 0, <<>>)

\* ------------------------------------------------------------------ ledger
\* AsyncDB.create_ride: INSERT ... 'searching' ... RETURNING id.
CreateRideRow(rs, rider_tg_id, pickup_lat, pickup_lng, drop_lat, drop_lng, drop_text, group_size, fare_estimate, eta_pickup, estimated_trip_time) ==
    Append(rs, [rider_tg_id |-> rider_tg_id,
                pickup_lat |-> pickup_lat,
                pickup_lng |-> pickup_lng,
                drop_lat |-> drop_lat,
                drop_lng |-> drop_lng,
                drop_text |-> drop_text,
                group_size |-> group_size,
                status |-> "searching",
                fare_estimate |-> fare_estimate,
                estimated_pickup_time |-> eta_pickup,
                estimated_trip_time |-> estimated_trip_time,
                assigned_driver_id |-> NULL,
                final_fare |-> NULL,
                cancelled_at |-> NULL,
                cancelled_by |-> NULL])

\* AsyncDB.get_ride: the row, or None.
GetRide(rs, ride_id) ==
    IF ride_id \in DOMAIN rs THEN <<rs[ride_id]>> ELSE NULL

\* A claim that writes without the "assigned_driver_id IS NULL" condition.
AssignRideUnconditionally(rs, ride_id, driver_id) ==
    IF ride_id \in DOMAIN rs
    THEN [rides |-> [rs EXCEPT ![ride_id].assigned_driver_id = <<driver_id>>,
                               ![ride_id].status = "assigned"],
          ok |-> TRUE]
    ELSE [rides |-> rs, ok |-> FALSE]

\* A claim that is refused while the driver holds another ride.
AssignRideIfDriverFree(rs, ride_id, driver_id) ==
    IF /\ ride_id \in DOMAIN rs /\ rs[ride_id].assigned_driver_id = NULL
       /\ \A r \in DOMAIN rs : rs[r].assigned_driver_id # <<driver_id>>
    THEN [rides |-> [rs EXCEPT ![ride_id].assigned_driver_id = <<driver_id>>,
                               ![ride_id].status = "assigned"],
          ok |-> TRUE]
    ELSE [rides |-> rs, ok |-> FALSE]

\* AsyncDB.assign_ride_if_unassigned: one conditional UPDATE; True iff a row
\* was updated.
AssignRideIfUnassigned(rs, ride_id, driver_id) ==
    IF ride_id \in DOMAIN rs /\ rs[ride_id].assigned_driver_id = NULL
    THEN [rides |-> [rs EXCEPT ![ride_id].assigned_driver_id = <<driver_id>>,
                               ![ride_id].status = "assigned"],
          ok |-> TRUE]
    ELSE [rides |-> rs, ok |-> FALSE]

\* A status update without the WHERE clause: every row gets the status.
SetRideStatusEverywhere(rs, ride_id, status) ==
    [r \in DOMAIN rs |-> [rs[r] EXCEPT !.status = status]]

\* AsyncDB.set_ride_status: UPDATE rides SET status=$1 WHERE id=$2.
SetRideStatus(rs, ride_id, status) ==
    IF ride_id \in DOMAIN rs
    THEN [rs EXCEPT ![ride_id].status = status]
    ELSE rs

\* A cancel that also hands the ride back (clears assigned_driver_id).
CancelRideReleasingDriver(rs, ride_id, cancelled_by, ts) ==
    IF ride_id \in DOMAIN rs
    THEN [rs EXCEPT ![ride_id].status = "cancelled",
                    ![ride_id].assigned_driver_id = NULL,
                    ![ride_id].cancelled_at = <<ts>>,
                    ![ride_id].cancelled_by = <<cancelled_by>>]
    ELSE rs

\* AsyncDB.cancel_ride: UPDATE rides SET status='cancelled', cancelled_at,
\* cancelled_by WHERE id=$3.
CancelRide(rs, ride_id, cancelled_by, ts) ==
    IF ride_id \in DOMAIN rs
    THEN [rs EXCEPT ![ride_id].status = "cancelled",
                    ![ride_id].cancelled_at = <<ts>>,
                    ![ride_id].cancelled_by = <<cancelled_by>>]
    ELSE rs

\* AsyncDB.update_ride_fare: UPDATE rides SET final_fare=$1 WHERE id=$2.
UpdateRideFare(rs, ride_id, final_fare) ==
    IF ride_id \in DOMAIN rs
    THEN [rs EXCEPT ![ride_id].final_fare = <<final_fare>>]
    ELSE rs

\* The row INSERT INTO drivers (telegram_id, name, phone, reg_no, status)
\* VALUES ($1, $2, $3, $4, 'offline') creates: id from the sequence, lat and
\* lng NULL, rating DEFAULT 5.0, total_ratings DEFAULT 0.
DriverRow(id, name, phone, reg_no) ==
    [id |-> id, name |-> name, phone |-> phone, reg_no |-> reg_no,
     status |-> "offline", lat |-> NULL, lng |-> NULL,
     rating |-> DecOfInt(5), total_ratings |-> 0]

\* COALESCE(EXCLUDED.x, drivers.x).
Coalesce(excluded, stored) == IF excluded # NULL THEN excluded ELSE stored

\* An upsert that writes the whole row again on a conflict.
AddOrUpdateDriverReplacing(ds, tg_id, name, phone, reg_no, id) ==
    IF tg_id \in DOMAIN ds
    THEN [ds EXCEPT ![tg_id] = DriverRow(ds[tg_id].id, name, phone, reg_no)]
    ELSE [u \in DOMAIN ds \cup {tg_id} |->
             IF u = tg_id THEN DriverRow(id, name, phone, reg_no) ELSE ds[u]]

\* AsyncDB.add_or_update_driver: INSERT ... ON CONFLICT (telegram_id) DO
\* UPDATE SET name, phone, reg_no = COALESCE(EXCLUDED.x, drivers.x); id is
\* the value the sequence hands to a new row.
AddOrUpdateDriver(ds, tg_id, name, phone, reg_no, id) ==
    IF tg_id \in DOMAIN ds
    THEN [ds EXCEPT ![tg_id].name = Coalesce(name, @),
                    ![tg_id].phone = Coalesce(phone, @),
                    ![tg_id].reg_no = Coalesce(reg_no, @)]
    ELSE [u \in DOMAIN ds \cup {tg_id} |->
             IF u = tg_id THEN DriverRow(id, name, phone, reg_no) ELSE ds[u]]

\* AsyncDB.set_driver_status: UPDATE drivers SET status=$1 WHERE telegram_id=$2.
SetDriverStatus(ds, tg_id, status) ==
    IF tg_id \in DOMAIN ds THEN [ds EXCEPT ![tg_id].status = status] ELSE ds

\* AsyncDB.update_driver_location: UPDATE drivers SET lat=$1, lng=$2 WHERE
\* telegram_id=$3.
UpdateDriverLocation(ds, tg_id, lat, lng) ==
    IF tg_id \in DOMAIN ds
    THEN [ds EXCEPT ![tg_id].lat = <<lat>>, ![tg_id].lng = <<lng>>]
    ELSE ds

\* The row of a driver of DriverIdOf after driver_phone registered them.
RegisteredDriver(u) == DriverRow(DriverIdOf[u], <<"Ann">>, <<"0700">>, <<"KBA 123A">>)

\* AsyncDB.get_driver_by_tg: the row, or None.
GetDriverByTg(ds, tg_id) ==
    IF tg_id \in DOMAIN ds THEN <<ds[tg_id]>> ELSE NULL

\* AsyncDB.get_driver_by_id: None for a falsy id, else the row or None.
GetDriverById(ds, driver_id) ==
    LET hit == {u \in DOMAIN ds : ds[u].id = driver_id}
    IN  IF hit = {} THEN NULL ELSE <<ds[CHOOSE u \in hit : TRUE]>>

\* AsyncDB.add_rating: INSERT INTO ratings.
AddRating(rt, ride_id, driver_id, rider_tg_id, rating) ==
    Append(rt, [ride_id |-> ride_id, driver_id |-> driver_id,
                rider_tg_id |-> rider_tg_id, rating |-> rating])

\* update_driver_rating, "Calculate new average":
\* ((current_rating * total_ratings) + new_rating) / (total_ratings + 1)
NewAverage(current_rating, total_ratings, new_rating) ==
    LET product == DecMul(current_rating, total_ratings)
        sum     == DecAdd(product, new_rating)
    IN  DecDiv(sum, total_ratings + 1)

\* update_driver_rating, the write:
\* UPDATE drivers SET rating=$1, total_ratings=total_ratings+1 WHERE id=$2.
SetDriverRating(ds, driver_id, new_avg) ==
    [u \in DOMAIN ds |->
        IF ds[u].id = driver_id
        THEN [ds[u] EXCEPT !.rating = new_avg, !.total_ratings = @ + 1]
        ELSE ds[u]]

\* ts = int(time.time()): the clock never runs backwards, so a reading is
\* any value that is not below a timestamp already stored.
ClockReadings(rs) ==
    {ts \in 1..MaxTime :
        \A r \in DOMAIN rs : rs[r].cancelled_at = NULL \/ rs[r].cancelled_at[1] <= ts}

\* ------------------------------------------------------------------ history
\* No score passed yet.
NoScores == [s \in Scores |-> 0]

RECURSIVE BagCount(_, _)
BagCount(b, S) ==
    IF S = {} THEN 0
    ELSE LET s == CHOOSE x \in S : TRUE IN b[s] + BagCount(b, S \ {s})

RECURSIVE BagSum(_, _)
BagSum(b, S) ==
    IF S = {} THEN 0
    ELSE LET s == CHOOSE x \in S : TRUE IN s * b[s] + BagSum(b, S \ {s})

\* The number and the sum of the scores passed for driver d.
ScoreCount(d) == BagCount(scored[d], Scores)
ScoreSum(d) == BagSum(scored[d], Scores)

\* Decimal(sum) / count: the mean as Decimal arithmetic gives it.
MeanOfScores(d) == DecDiv(DecOfInt(ScoreSum(d)), ScoreCount(d))

\* ------------------------------------------------------------------ floats
\* The estimates are computed with Python floats (IEEE 754 doubles, rounded
\* to nearest, ties to even).  A natural number is kept as NLimbs groups of
\* LimbBits bits, least significant first, and a double that is not negative
\* as a mantissa m and an exponent e: the value m * 2^e, with m below 2^53.
LimbBits == 14

LimbBase == 2 ^ LimbBits

NLimbs == 10

\* The bits of a double's mantissa.
MantissaBits == 53

Limbs == 1..NLimbs

\* An int n >= 0 as a natural number.
NatOfInt(n) ==
    [i \in Limbs |-> IF i = 1 THEN n % LimbBase
                     ELSE IF i = 2 THEN (n \div LimbBase) % LimbBase
                     ELSE IF i = 3 THEN n \div (LimbBase * LimbBase)
                     ELSE 0]

\* A natural number below 2^31 as an int.
IntOfNat(a) == a[1] + a[2] * LimbBase + a[3] * LimbBase * LimbBase

\* Column sums to groups, from column i upwards: carry is what the columns
\* before i passed on.
RECURSIVE Carried(_, _, _)
Carried(cols, i, carry) ==
    IF i > NLimbs THEN <<>>
    ELSE LET cur == cols[i] + carry
         IN  <<cur % LimbBase>> \o Carried(cols, i + 1, cur \div LimbBase)

NatAdd(a, b) == Carried([i \in Limbs |-> a[i] + b[i]], 1, 0)

\* a - b for a >= b: LimbBase - 1 - b[i] in every column and 1 more is
\* LimbBase^NLimbs - b, and the carry out of the last column is dropped.
NatSub(a, b) ==
    Carried([i \in Limbs |-> a[i] + (LimbBase - 1 - b[i])], 1, 1)

\* a * k for an int k below 2^16.
NatMulSmall(a, k) == Carried([i \in Limbs |-> a[i] * k], 1, 0)

\* The group of a at position i, 0 outside the number.
At(a, i) == IF i \in Limbs THEN a[i] ELSE 0

\* a * b for a below LimbBase^4 (a mantissa).
NatMul(a, b) ==
    Carried([i \in Limbs |-> a[1] * At(b, i) + a[2] * At(b, i - 1)
                                 + a[3] * At(b, i - 2) + a[4] * At(b, i - 3)],
            1, 0)

\* a * 2^s.
ShiftLeft(a, s) ==
    LET w == s \div LimbBits
    IN  NatMulSmall([i \in Limbs |-> At(a, i - w)], 2 ^ (s % LimbBits))

\* Long division of a by an int k below 2^16, from group i downwards: the
\* groups of the quotient, the highest first, and then the remainder; rem is
\* what the groups above i left.
RECURSIVE DivSmallFrom(_, _, _, _)
DivSmallFrom(a, k, i, rem) ==
    IF i = 0 THEN <<rem>>
    ELSE LET cur == a[i] + rem * LimbBase
         IN  <<cur \div k>> \o DivSmallFrom(a, k, i - 1, cur % k)

\* a / k: the quotient q and the remainder r.
NatDivSmall(a, k) ==
    LET digits == DivSmallFrom(a, k, NLimbs, 0)
    IN  [q |-> [i \in Limbs |-> digits[NLimbs + 1 - i]], r |-> digits[NLimbs + 1]]

\* a / 2^s: the quotient q, and whether bits that are not 0 were dropped.
ShiftRight(a, s) ==
    LET w    == s \div LimbBits
        high == NatDivSmall([i \in Limbs |-> At(a, i + w)], 2 ^ (s % LimbBits))
    IN  [q |-> high.q,
         sticky |-> high.r # 0 \/ \E i \in Limbs : i <= w /\ a[i] # 0]

\* The number of bits of a (0 for 0).
BitLength(a) ==
    IF \A i \in Limbs : a[i] = 0 THEN 0
    ELSE LET top == CHOOSE i \in Limbs : a[i] # 0 /\ \A j \in Limbs : j > i => a[j] = 0
             len == CHOOSE k \in 1..LimbBits : 2 ^ (k - 1) <= a[top] /\ a[top] < 2 ^ k
         IN  LimbBits * (top - 1) + len

\* a / 2^s (s >= 1) rounded to the nearest natural number, a tie going to
\* the even one; sticky says that a itself already left bits out.
HalfEven(a, s, sticky) ==
    LET kept  == ShiftRight(a, s - 1)
        q     == NatDivSmall(kept.q, 2).q
        guard == kept.q[1] % 2 = 1
        up    == guard /\ (kept.sticky \/ sticky \/ q[1] % 2 = 1)
    IN  IF up THEN NatAdd(q, NatOfInt(1)) ELSE q

\* The double nearest to m * 2^e.
Rounded(m, e, sticky) ==
    LET n == BitLength(m)
    IN  IF n <= MantissaBits THEN [m |-> m, e |-> e]
        ELSE [m |-> HalfEven(m, n - MantissaBits, sticky),
              e |-> e + (n - MantissaBits)]

\* float(n) for an int n in 0..2^31 - 1.
DoubleOfInt(n) == [m |-> NatOfInt(n), e |-> 0]

Min(x, y) == IF x <= y THEN x ELSE y

FAdd(x, y) ==
    LET e == Min(x.e, y.e)
    IN  Rounded(NatAdd(ShiftLeft(x.m, x.e - e), ShiftLeft(y.m, y.e - e)), e, FALSE)

\* x - y for x >= y.
FSub(x, y) ==
    LET e == Min(x.e, y.e)
    IN  Rounded(NatSub(ShiftLeft(x.m, x.e - e), ShiftLeft(y.m, y.e - e)), e, FALSE)

FMul(x, y) == Rounded(NatMul(x.m, y.m), x.e + y.e, FALSE)

\* The bits a quotient is computed to before it is rounded.
QuotientBits == 70

\* x / k for an int k in 1..2^16 - 1.
FDivSmall(x, k) ==
    LET quot == NatDivSmall(ShiftLeft(x.m, QuotientBits), k)
    IN  Rounded(quot.q, x.e - QuotientBits, quot.r # 0)

\* The float of the decimal literal n / den (n >= 0, den > 0): the double
\* nearest to the fraction.
DoubleOfFraction(n, den) == FDivSmall(DoubleOfInt(n), den)

\* int(x): the whole part of x (below 2^31).
Truncated(x) ==
    IF x.e >= 0 THEN IntOfNat(ShiftLeft(x.m, x.e))
    ELSE IntOfNat(ShiftRight(x.m, 0 - x.e).q)

\* round(x, 2), in hundredths: Python rounds the exact value of the double,
\* a tie going to the even hundredth.
RoundedToHundredths(x) ==
    LET scaled == NatMulSmall(x.m, 100)
    IN  IF x.e >= 0 THEN IntOfNat(ShiftLeft(scaled, x.e))
        ELSE IntOfNat(HalfEven(scaled, 0 - x.e, FALSE))

\* ------------------------------------------------------------------ estimates
\* Fares are in hundredths of the currency unit: a fare is a float rounded
\* to 2 places, which the DECIMAL column fare_estimate keeps as it is.
base_fare == 100

per_km_rate == 50

per_min_rate == 2

avg_speed_kmh == 30

\* confirm_callback: "estimated_pickup_time = 8  # Average 8 minutes".
estimated_pickup_time == 8

\* The float literal 0.2.
OneFifth == DoubleOfFraction(2, 10)

\* group_surcharge = 1.0 + (group_size - 1) * 0.2, for group_size >= 0.
GroupSurcharge(group_size) ==
    IF group_size >= 1
    THEN FAdd(DoubleOfInt(1), FMul(DoubleOfInt(group_size - 1), OneFifth))
    ELSE FSub(DoubleOfInt(1), FMul(DoubleOfInt(1 - group_size), OneFifth))

\* calculate_fare_estimate with a surcharge that falls with the group size,
\* 1.0 - (group_size - 1) * 0.2.
CalculateFareEstimateDiscounting(distance_km, estimated_time_min, group_size) ==
    LET by_distance == FMul(distance_km, DoubleOfInt(per_km_rate))
        by_time     == DoubleOfInt(estimated_time_min * per_min_rate)
        subtotal    == FAdd(FAdd(DoubleOfInt(base_fare), by_distance), by_time)
    IN  RoundedToHundredths(FMul(subtotal, GroupSurcharge(2 - group_size)))

\* calculate_fare_estimate, the distance a double and the result in
\* hundredths:
\*   fare = (base_fare + (distance_km * per_km_rate)
\*           + (estimated_time_min * per_min_rate)) * group_surcharge
\*   return round(fare, 2)
CalculateFareEstimate(distance_km, estimated_time_min, group_size) ==
    LET by_distance == FMul(distance_km, DoubleOfInt(per_km_rate))
        by_time     == DoubleOfInt(estimated_time_min * per_min_rate)
        subtotal    == FAdd(FAdd(DoubleOfInt(base_fare), by_distance), by_time)
    IN  RoundedToHundredths(FMul(subtotal, GroupSurcharge(group_size)))

\* estimate_travel_time: int((distance_km / avg_speed_kmh) * 60), for a
\* speed that is a whole number.
EstimateTravelTimeAt(distance_km, speed_kmh) ==
    Truncated(FMul(FDivSmall(distance_km, speed_kmh), DoubleOfInt(60)))

\* estimate_travel_time with the default speed.
EstimateTravelTime(distance_km) == EstimateTravelTimeAt(distance_km, avg_speed_kmh)

Abs(n) == IF n < 0 THEN 0 - n ELSE n

\* One degree of a great circle of radius R = 6371 km, to the metre.
MetresPerDegree == 111195

\* AsyncDB.calculate_distance (haversine) for two points of one meridian:
\* with dlon = 0 the formula gives R * |dlat| (in radians).  Coordinates are
\* whole degrees and every location of the model lies on one meridian.
CalculateDistance(lat1, lon1, lat2, lon2) == MetresPerDegree * Abs(lat2 - lat1)

\* ------------------------------------------------------------------ tasks
Idle == [h |-> "idle", pc |-> "done", user |-> "u1", ride_id |-> 1,
         drv |-> NULL, ride |-> NULL, pre |-> "none",
         score |-> 0, cur |-> NULL]

\* What a handler keeps of a fetched ride row.
RideView(row) == [rider_tg_id |-> row.rider_tg_id,
                  assigned_driver_id |-> row.assigned_driver_id]

\* History kept by complete_ride_cmd: the status of the row its UPDATE hit
\* ("none": no such row).
StatusOf(rs, ride_id) ==
    IF ride_id \in DOMAIN rs THEN rs[ride_id].status ELSE "none"

Free(t) == tasks[t].pc = "done"

\* A message sent to a chat other than the caller's.
Note(chat_id, kind) == [chat_id |-> chat_id, kind |-> kind]

\* drivers.telegram_id of the row with this id.
TelegramIdOf(ds, driver_id) == CHOOSE u \in DOMAIN ds : ds[u].id = driver_id

\* A step that tells nobody anything.
Quiet ==
    /\ reply' = "none"
    /\ sent' = {}

\* The handler returns: its locals are gone, the caller has its answer and
\* the notifications notes have been delivered.
EndSending(t, msg, notes) ==
    /\ tasks' = [tasks EXCEPT ![t] = Idle]
    /\ reply' = msg
    /\ sent' = notes

End(t, msg) == EndSending(t, msg, {})

Begin(t, h, pc, user, ride_id) ==
    /\ Free(t)
    /\ tasks' = [tasks EXCEPT ![t] = [Idle EXCEPT !.h = h, !.pc = pc,
                                      !.user = user, !.ride_id = ride_id]]

\* ------------------------------------------------------------------ request conversation
\* ride_conv (bot/handlers.py): the states of the ConversationHandler, "END"
\* for a rider who is in no conversation.
ConvStates == {"PICKUP", "DROP", "GROUP", "CONFIRM"}

\* Locations a rider shares, <<latitude, longitude>> in degrees: a point
\* north of the equator and the point of the same meridian on the equator.
Locations == {<<1, 36>>, <<0, 36>>}

\* Texts a rider types in state DROP.
DropTexts == {"Skip", "skip", "Mall"}

\* A message with a location or with text.
Messages ==
    {[location |-> <<l>>, text |-> NULL] : l \in Locations}
        \cup {[location |-> NULL, text |-> <<t>>] : t \in DropTexts}

\* The number in the data 'group:<num>' of a callback: group_size_buttons
\* offers 1, 3 and 5; callback data is client-supplied text, so a number the
\* keyboard does not offer can arrive.
GroupSizes == {0, 1, 3}

\* The data of a callback that reaches confirm_callback: confirm_buttons
\* offers 'confirm:yes' and 'confirm:no'; the handler is registered for the
\* pattern '^confirm:' and callback data is client-supplied text, so other
\* data with that prefix can arrive.
ConfirmData == {"confirm:yes", "confirm:no", "confirm:ok"}

\* str.lower() on the texts above.
Lower(text) == IF text = "Skip" THEN "skip" ELSE text

\* context.user_data before the first request; a key that is missing and a
\* key that holds None are both NULL (the handlers read with .get).
EmptyUserData ==
    [pickup_lat |-> NULL, pickup_lng |-> NULL,
     drop_lat |-> NULL, drop_lng |-> NULL, drop_text |-> NULL,
     distance_km |-> NULL, estimated_trip_time |-> NULL,
     group_size |-> NULL, fare_estimate |-> NULL]

NoConversation ==
    /\ conv = [u \in Riders |-> "END"]
    /\ user_data = [u \in Riders |-> EmptyUserData]

\* The callback query confirm_callback has received.
ConfirmCall(data) == [callback_data |-> data]

\* No estimate function has been called.
NoCall == [distance_km |-> <<0, 1>>, estimated_time_min |-> 0, group_size |-> 1,
           avg_speed_kmh |-> avg_speed_kmh, fare |-> NULL, minutes |-> NULL]

\* dict.get(key, default).
Get(value, default) == IF value = NULL THEN default ELSE value[1]

\* The truth value Python gives an optional number: None and 0 are false.
Truthy(value) == value # NULL /\ value[1] # 0

\* The callback returns its next state after its last Telegram call went
\* through; when that call raises, the conversation keeps its state.
Returns(u, delivered, state, msg) ==
    /\ conv' = IF delivered THEN [conv EXCEPT ![u] = state] ELSE conv
    /\ reply' = IF delivered THEN msg ELSE "raised"
    /\ sent' = {}

\* request_start, entered by the command /request.
RequestStart(u, delivered) ==
    /\ conv[u] = "END"
    /\ Returns(u, delivered, "PICKUP", "share_pickup")
    /\ UNCHANGED <<drivers, rides, ratings, tasks, won, lost, scored, user_data, call>>

\* pickup_received: msg is the message received in state PICKUP.
PickupReceived(u, msg, delivered) ==
    /\ conv[u] = "PICKUP"
    /\ IF msg.location = NULL
       THEN /\ Returns(u, delivered, "PICKUP", "use_share_location")
            /\ UNCHANGED user_data
       ELSE /\ user_data' = [user_data EXCEPT
                                ![u].pickup_lat = <<msg.location[1][1]>>,
                                ![u].pickup_lng = <<msg.location[1][2]>>]
            /\ Returns(u, delivered, "DROP", "got_pickup")
    /\ UNCHANGED <<drivers, rides, ratings, tasks, won, lost, scored, call>>

\* A drop_received that keeps an earlier drop_text when a location arrives.
DropStoredKeepingText(data, msg) ==
    IF msg.location # NULL
    THEN [data EXCEPT !.drop_lat = <<msg.location[1][1]>>,
                      !.drop_lng = <<msg.location[1][2]>>]
    ELSE IF Lower(msg.text[1]) = "skip"
    THEN [data EXCEPT !.drop_lat = NULL, !.drop_lng = NULL, !.drop_text = NULL]
    ELSE [data EXCEPT !.drop_lat = NULL, !.drop_lng = NULL,
                      !.drop_text = msg.text]

\* drop_received, lines 26-40: what the message leaves in user_data.
DropStored(data, msg) ==
    IF msg.location # NULL
    THEN [data EXCEPT !.drop_lat = <<msg.location[1][1]>>,
                      !.drop_lng = <<msg.location[1][2]>>,
                      !.drop_text = NULL]
    ELSE IF Lower(msg.text[1]) = "skip"
    THEN [data EXCEPT !.drop_lat = NULL, !.drop_lng = NULL, !.drop_text = NULL]
    ELSE [data EXCEPT !.drop_lat = NULL, !.drop_lng = NULL,
                      !.drop_text = msg.text]

\* drop_received: msg is the message received in state DROP.  The branch
\* for a drop latitude and longitude that are both true calls
\* AsyncDB.calculate_distance, a name bot/rides.py never imports: the
\* handler ends there with a NameError, after the writes of DropStored.
DropReceived(u, msg, delivered) ==
    /\ conv[u] = "DROP"
    /\ LET stored == DropStored(user_data[u], msg)
       IN  IF Truthy(stored.drop_lat) /\ Truthy(stored.drop_lng)
           THEN /\ user_data' = [user_data EXCEPT ![u] = stored]
                /\ Returns(u, FALSE, "DROP", "raised")
           ELSE /\ user_data' = [user_data EXCEPT ![u] =
                                    [stored EXCEPT !.distance_km = <<0>>,
                                                   !.estimated_trip_time = <<0>>]]
                /\ Returns(u, delivered, "GROUP", "how_many")
    /\ UNCHANGED <<drivers, rides, ratings, tasks, won, lost, scored, call>>

\* A group_callback that keeps a group size user_data already holds.
GroupCallbackKeepingSize(u, num, calls) ==
    /\ conv[u] = "GROUP"
    /\ IF calls = 0
       THEN /\ Returns(u, FALSE, "GROUP", "raised")
            /\ UNCHANGED user_data
       ELSE LET data == user_data[u]
                group_size == Get(data.group_size, num)
                fare_estimate ==
                    CalculateFareEstimate(DoubleOfInt(Get(data.distance_km, 0)),
                                          Get(data.estimated_trip_time, 0), group_size)
            IN  /\ user_data' = [user_data EXCEPT
                                    ![u].group_size = <<group_size>>,
                                    ![u].fare_estimate = <<fare_estimate>>]
                /\ Returns(u, calls = 2 /\ data.pickup_lat # NULL,
                           "CONFIRM", "summary")
    /\ UNCHANGED <<drivers, rides, ratings, tasks, won, lost, scored, call>>

\* group_callback for the data 'group:<num>'; calls counts the Telegram
\* calls that went through (query.answer, then edit_message_text).
GroupCallback(u, num, calls) ==
    /\ conv[u] = "GROUP"
    /\ IF calls = 0
       THEN /\ Returns(u, FALSE, "GROUP", "raised")
            /\ UNCHANGED user_data
       ELSE LET data == user_data[u]
                fare_estimate ==
                    CalculateFareEstimate(DoubleOfInt(Get(data.distance_km, 0)),
                                          Get(data.estimated_trip_time, 0), num)
            IN  /\ user_data' = [user_data EXCEPT
                                    ![u].group_size = <<num>>,
                                    ![u].fare_estimate = <<fare_estimate>>]
                /\ Returns(u, calls = 2 /\ data.pickup_lat # NULL,
                           "CONFIRM", "summary")
    /\ UNCHANGED <<drivers, rides, ratings, tasks, won, lost, scored, call>>

\* The chat the setting dispatch_chat_id names.
DispatchChat == "dispatch"

\* confirm_callback.  dispatch_set: the setting dispatch_chat_id has a
\* value; created: db.create_ride did not raise; calls counts the Telegram
\* calls that went through (query.answer, edit_message_text, the post to the
\* dispatch chat, the message to the rider).
ConfirmCallback(u, confirm, dispatch_set, created, calls) ==
    /\ conv[u] = "CONFIRM"
    /\ call' = ConfirmCall(confirm)
    /\ UNCHANGED <<drivers, ratings, tasks, won, lost, scored, user_data>>
    /\ IF calls = 0
       THEN /\ Returns(u, FALSE, "CONFIRM", "raised")
            /\ UNCHANGED rides
       ELSE IF confirm = "confirm:no"
       THEN /\ Returns(u, calls >= 2, "END", "request_cancelled")
            /\ UNCHANGED rides
       ELSE IF ~dispatch_set
       THEN /\ Returns(u, calls >= 2, "END", "dispatch_not_set")
            /\ UNCHANGED rides
       ELSE IF ~created
       THEN /\ Returns(u, calls >= 2, "END", "failed_to_create")
            /\ UNCHANGED rides
       ELSE LET data == user_data[u]
            IN  /\ Len(rides) < MaxRides
                /\ rides' = CreateRideRow(rides, u,
                                data.pickup_lat, data.pickup_lng,
                                data.drop_lat, data.drop_lng, data.drop_text,
                                Get(data.group_size, 1),
                                Get(data.fare_estimate, 0),
                                estimated_pickup_time,
                                Get(data.estimated_trip_time, 0))
                /\ conv' = IF calls >= 2 /\ data.pickup_lat # NULL
                           THEN [conv EXCEPT ![u] = "END"] ELSE conv
                /\ reply' = IF calls >= 2 /\ data.pickup_lat # NULL
                            THEN "searching" ELSE "raised"
                /\ sent' = IF data.pickup_lat = NULL THEN {}
                           ELSE (IF calls >= 3
                                 THEN {Note(DispatchChat, "new_ride")} ELSE {})
                                \cup (IF calls = 4
                                      THEN {Note(u, "request_posted")} ELSE {})

\* cancel_conv: the fallback /cancel, in any state of the conversation.
CancelConv(u, delivered) ==
    /\ conv[u] \in ConvStates
    /\ Returns(u, delivered, "END", "request_cancelled")
    /\ UNCHANGED <<drivers, rides, ratings, tasks, won, lost, scored, user_data, call>>

\* ------------------------------------------------------------------ request conversation of src/handlers.py
\* The bot started by src/tuktuk_main.py registers its own ride_conv
\* (src/handlers.py), on the ledger of src/tuktuk_db.py.  request_start,
\* pickup_received and cancel_conv are those of bot/rides.py, statement for
\* statement; drop_received, group_callback and confirm_callback differ.

\* AsyncDB.create_ride of src/tuktuk_db.py: the rides table of that ledger
\* has no fare, time or cancellation columns.
TuktukCreateRideRow(rs, rider_tg_id, pickup_lat, pickup_lng, drop_lat, drop_lng, drop_text, group_size) ==
    Append(rs, [rider_tg_id |-> rider_tg_id,
                pickup_lat |-> pickup_lat,
                pickup_lng |-> pickup_lng,
                drop_lat |-> drop_lat,
                drop_lng |-> drop_lng,
                drop_text |-> drop_text,
                group_size |-> group_size,
                status |-> "searching",
                assigned_driver_id |-> NULL])

\* drop_received of src/handlers.py: it stores what drop_received of
\* bot/rides.py stores and computes no distance.
HandlersDropReceived(u, msg, delivered) ==
    /\ conv[u] = "DROP"
    /\ user_data' = [user_data EXCEPT ![u] = DropStored(user_data[u], msg)]
    /\ Returns(u, delivered, "GROUP", "how_many")
    /\ UNCHANGED <<drivers, rides, ratings, tasks, won, lost, scored, call>>

\* group_callback of src/handlers.py: it stores the group size and shows
\* the summary, whose pickup line formats the coordinates (a TypeError for
\* None); calls counts the Telegram calls that went through.
HandlersGroupCallback(u, num, calls) ==
    /\ conv[u] = "GROUP"
    /\ IF calls = 0
       THEN /\ Returns(u, FALSE, "GROUP", "raised")
            /\ UNCHANGED user_data
       ELSE /\ user_data' = [user_data EXCEPT ![u].group_size = <<num>>]
            /\ Returns(u, calls = 2 /\ user_data[u].pickup_lat # NULL,
                       "CONFIRM", "summary")
    /\ UNCHANGED <<drivers, rides, ratings, tasks, won, lost, scored, call>>

\* confirm_callback of src/handlers.py (and, statement for statement, of
\* src/tuktuk_bot.py): db.create_ride comes first, then 'Searching for a
\* driver nearby...', and only then the setting dispatch_chat_id is read.
\* calls counts the Telegram calls that went through: query.answer,
\* edit_message_text, then either the reply 'Dispatch group not set' or the
\* post to the dispatch chat and the message to the rider (both in one try
\* block).
HandlersConfirmCallback(u, confirm, dispatch_set, created, calls) ==
    /\ conv[u] = "CONFIRM"
    /\ call' = ConfirmCall(confirm)
    /\ UNCHANGED <<drivers, ratings, tasks, won, lost, scored, user_data>>
    /\ IF calls = 0
       THEN /\ Returns(u, FALSE, "CONFIRM", "raised")
            /\ UNCHANGED rides
       ELSE IF confirm = "confirm:no"
       THEN /\ Returns(u, calls >= 2, "END", "request_cancelled")
            /\ UNCHANGED rides
       ELSE IF ~created
       THEN /\ Returns(u, calls >= 2, "END", "failed_to_create")
            /\ UNCHANGED rides
       ELSE LET data == user_data[u]
            IN  /\ Len(rides) < MaxRides
                /\ rides' = TuktukCreateRideRow(rides, u,
                                data.pickup_lat, data.pickup_lng,
                                data.drop_lat, data.drop_lng, data.drop_text,
                                Get(data.group_size, 1))
                /\ IF calls = 1
                   THEN Returns(u, FALSE, "CONFIRM", "raised")
                   ELSE IF ~dispatch_set
                   THEN Returns(u, calls >= 3, "END", "dispatch_not_set")
                   ELSE /\ conv' = IF data.pickup_lat # NULL
                                   THEN [conv EXCEPT ![u] = "END"] ELSE conv
                        /\ reply' = IF data.pickup_lat # NULL
                                    THEN "searching" ELSE "raised"
                        /\ sent' = IF data.pickup_lat = NULL THEN {}
                                   ELSE (IF calls >= 3
                                         THEN {Note(DispatchChat, "new_ride")} ELSE {})
                                        \cup (IF calls = 4
                                              THEN {Note(u, "request_posted")} ELSE {})

\* ------------------------------------------------------------------ init
Init ==
    /\ drivers = [u \in DOMAIN DriverIdOf |->
                    RegisteredDriver(u)]
    /\ rides = <<>>
    /\ ratings = <<>>
    /\ tasks = [t \in TaskIds |-> Idle]
    /\ won = [r \in RideIds |-> <<>>]
    /\ lost = [r \in RideIds |-> {}]
    /\ scored = [d \in {DriverIdOf[u] : u \in DOMAIN DriverIdOf} |-> NoScores]
    /\ reply = "none"
    /\ sent = {}
    /\ NoConversation
    /\ call = NoCall

\* ------------------------------------------------------------------ environment
\* The fare group_callback computes for one rider who skipped the
\* destination: distance 0, 0 minutes, group size 1.
FareWithoutDestination == CalculateFareEstimate(DoubleOfInt(0), 0, 1)

\* confirm_callback reaches db.create_ride for the rider of the conversation.
CreateRide(u) ==
    /\ Len(rides) < MaxRides
    /\ rides' = CreateRideRow(rides, u, <<1>>, <<36>>, NULL, NULL, NULL, 1,
                              FareWithoutDestination,
                              estimated_pickup_time, 0)
    /\ UNCHANGED <<drivers, ratings, tasks, won, lost, scored, conv, user_data, call>>
    /\ Quiet

\* AsyncDB.update_ride_fare called for any ride id.
SetFinalFare(r, f) ==
    /\ r \in DOMAIN rides
    /\ rides[r].final_fare # <<f>>
    /\ rides' = UpdateRideFare(rides, r, f)
    /\ UNCHANGED <<drivers, ratings, tasks, won, lost, scored, conv, user_data, call>>
    /\ Quiet

\* ------------------------------------------------------------------ accept_callback
\* accept_callback exists twice: in src/bot/rides.py ("accept") and, for the
\* bot started by src/tuktuk_main.py, in src/handlers.py ("handlers_accept").
\* Both begin with the same get_driver_by_tg and assign_ride_if_unassigned.
AcceptHandlers == {"accept", "handlers_accept"}

StartAccept(t, u, r) ==
    /\ Begin(t, "accept", "get_driver", u, r)
    /\ UNCHANGED <<drivers, rides, ratings, won, lost, scored, conv, user_data, call>>
    /\ Quiet

StartHandlersAccept(t, u, r) ==
    /\ Begin(t, "handlers_accept", "get_driver", u, r)
    /\ UNCHANGED <<drivers, rides, ratings, won, lost, scored, conv, user_data, call>>
    /\ Quiet

\* The lookup without the 'if not drv' return: a user with no driver row
\* goes on to the claim, with driver id 0.
AcceptGetDriverUnchecked(t) ==
    /\ tasks[t].h \in AcceptHandlers /\ tasks[t].pc = "get_driver"
    /\ LET drv == GetDriverByTg(drivers, tasks[t].user)
           id  == IF drv = NULL THEN 0 ELSE drv[1].id
       IN  /\ tasks' = [tasks EXCEPT ![t].drv = <<id>>, ![t].pc = "claim"]
           /\ Quiet
    /\ UNCHANGED <<drivers, rides, ratings, won, lost, scored, conv, user_data, call>>

\* drv = await db.get_driver_by_tg(user.id)
\* if not drv: 'Only registered drivers can accept rides...'; return
AcceptGetDriver(t) ==
    /\ tasks[t].h \in AcceptHandlers /\ tasks[t].pc = "get_driver"
    /\ LET drv == GetDriverByTg(drivers, tasks[t].user)
       IN  IF drv = NULL
           THEN End(t, "only_registered_drivers")
           ELSE /\ tasks' = [tasks EXCEPT ![t].drv = <<drv[1].id>>, ![t].pc = "claim"]
                /\ Quiet
    /\ UNCHANGED <<drivers, rides, ratings, won, lost, scored, conv, user_data, call>>

\* The claim step without the return after 'already taken': the handler
\* goes on as if it had won.
AcceptClaimFallingThrough(t) ==
    /\ tasks[t].h \in AcceptHandlers /\ tasks[t].pc = "claim"
    /\ LET r   == tasks[t].ride_id
           d   == tasks[t].drv[1]
           res == AssignRideIfUnassigned(rides, r, d)
       IN  /\ rides' = res.rides
           /\ tasks' = [tasks EXCEPT ![t].pc = "get_ride"]
           /\ reply' = IF res.ok THEN "none" ELSE "already_taken"
           /\ sent' = {}
           /\ won' = IF res.ok THEN [won EXCEPT ![r] = Append(@, d)] ELSE won
           /\ lost' = IF r \in DOMAIN rides /\ ~res.ok
                      THEN [lost EXCEPT ![r] = @ \cup {d}] ELSE lost
    /\ UNCHANGED <<drivers, ratings, scored, conv, user_data, call>>

\* assigned = await db.assign_ride_if_unassigned(ride_id, driver_db_id)
\* if not assigned: 'Sorry - this ride was already taken by another driver.'; return
AcceptClaim(t) ==
    /\ tasks[t].h \in AcceptHandlers /\ tasks[t].pc = "claim"
    /\ LET r   == tasks[t].ride_id
           d   == tasks[t].drv[1]
           res == AssignRideIfUnassigned(rides, r, d)
       IN  /\ rides' = res.rides
           /\ IF res.ok
              THEN /\ tasks' = [tasks EXCEPT ![t].pc = "get_ride"]
                   /\ Quiet
              ELSE End(t, "already_taken")
           /\ won' = IF res.ok THEN [won EXCEPT ![r] = Append(@, d)] ELSE won
           /\ lost' = IF r \in DOMAIN rides /\ ~res.ok
                      THEN [lost EXCEPT ![r] = @ \cup {d}] ELSE lost
    /\ UNCHANGED <<drivers, ratings, scored, conv, user_data, call>>

\* ride = await db.get_ride(ride_id); rider_tg_id = ride['rider_tg_id']
AcceptGetRide(t) ==
    /\ tasks[t].h = "accept" /\ tasks[t].pc = "get_ride"
    /\ tasks' = [tasks EXCEPT ![t].ride = <<RideView(GetRide(rides, tasks[t].ride_id)[1])>>,
                              ![t].pc = "set_status"]
    /\ UNCHANGED <<drivers, rides, ratings, won, lost, scored, conv, user_data, call>>
    /\ Quiet

\* The last step with an except branch that hands the ride back when a
\* send fails.
AcceptSetStatusRollingBack(t, delivered) ==
    /\ tasks[t].h = "accept" /\ tasks[t].pc = "set_status"
    /\ rides' = IF delivered = 3
                THEN SetRideStatus(rides, tasks[t].ride_id, "driver_assigned")
                ELSE [rides EXCEPT ![tasks[t].ride_id].assigned_driver_id = NULL,
                                   ![tasks[t].ride_id].status = "searching"]
    /\ EndSending(t, IF delivered >= 1 THEN "assigned_to_you" ELSE "none",
                  (IF delivered >= 2
                   THEN {Note(tasks[t].ride[1].rider_tg_id, "driver_assigned")}
                   ELSE {})
                  \cup (IF delivered = 3
                        THEN {Note(tasks[t].user, "manage_trip")}
                        ELSE {}))
    /\ UNCHANGED <<drivers, ratings, won, lost, scored, conv, user_data, call>>

\* await db.set_ride_status(ride_id, 'driver_assigned'), then one try block
\* with three sends in a row: 'Ride <id> assigned to you!' to the caller,
\* 'Driver Assigned!' to the rider, the trip buttons to the driver.  The
\* first send that fails ends the block (except: logger.warning); delivered
\* is the number of sends before it.
AcceptSetStatus(t, delivered) ==
    /\ tasks[t].h = "accept" /\ tasks[t].pc = "set_status"
    /\ rides' = SetRideStatus(rides, tasks[t].ride_id, "driver_assigned")
    /\ EndSending(t, IF delivered >= 1 THEN "assigned_to_you" ELSE "none",
                  (IF delivered >= 2
                   THEN {Note(tasks[t].ride[1].rider_tg_id, "driver_assigned")}
                   ELSE {})
                  \cup (IF delivered = 3
                        THEN {Note(tasks[t].user, "manage_trip")}
                        ELSE {}))
    /\ UNCHANGED <<drivers, ratings, won, lost, scored, conv, user_data, call>>

\* src/handlers.py after the claim: ride = await db.get_ride(ride_id), then
\* three sends, each in a try block of its own: 'Ride <id> assigned to
\* driver ...' to the caller, 'Driver assigned' to the rider, the ride
\* summary to the driver.
HandlersAcceptGetRide(t, edited, rider_told, driver_told) ==
    /\ tasks[t].h = "handlers_accept" /\ tasks[t].pc = "get_ride"
    /\ LET ride == GetRide(rides, tasks[t].ride_id)[1]
       IN  EndSending(t, IF edited THEN "assigned_to_driver" ELSE "none",
                      (IF rider_told
                       THEN {Note(ride.rider_tg_id, "driver_assigned")}
                       ELSE {})
                      \cup (IF driver_told
                            THEN {Note(tasks[t].user, "manage_trip")}
                            ELSE {}))
    /\ UNCHANGED <<drivers, rides, ratings, won, lost, scored, conv, user_data, call>>

\* ------------------------------------------------------------------ cancel_trip_callback
StartCancel(t, u, r) ==
    /\ Begin(t, "cancel", "get_ride", u, r)
    /\ UNCHANGED <<drivers, rides, ratings, won, lost, scored, conv, user_data, call>>
    /\ Quiet

\* cancel_trip_callback without its "is the caller the rider" test.
CancelGetRideUnchecked(t) ==
    /\ tasks[t].h = "cancel" /\ tasks[t].pc = "get_ride"
    /\ LET ride == GetRide(rides, tasks[t].ride_id)
       IN  IF ride # NULL
           THEN /\ tasks' = [tasks EXCEPT ![t].ride = <<RideView(ride[1])>>,
                                          ![t].pc = "cancel_ride"]
                /\ Quiet
           ELSE End(t, "none")
    /\ UNCHANGED <<drivers, rides, ratings, won, lost, scored, conv, user_data, call>>

\* ride = await db.get_ride(ride_id)
\* if ride and ride['rider_tg_id'] == user_id: ... (else the handler ends
\* without a message)
CancelGetRide(t) ==
    /\ tasks[t].h = "cancel" /\ tasks[t].pc = "get_ride"
    /\ LET ride == GetRide(rides, tasks[t].ride_id)
       IN  IF ride # NULL /\ ride[1].rider_tg_id = tasks[t].user
           THEN /\ tasks' = [tasks EXCEPT ![t].ride = <<RideView(ride[1])>>,
                                          ![t].pc = "cancel_ride"]
                /\ Quiet
           ELSE End(t, "none")
    /\ UNCHANGED <<drivers, rides, ratings, won, lost, scored, conv, user_data, call>>

\* await db.cancel_ride(ride_id, 'rider'); 'Trip cancelled successfully.';
\* if the row fetched before had a driver, that driver is told (in a try
\* block: delivered says whether the send went through).
CancelWrite(t, ts, delivered) ==
    /\ tasks[t].h = "cancel" /\ tasks[t].pc = "cancel_ride"
    /\ rides' = CancelRide(rides, tasks[t].ride_id, "rider", ts)
    /\ LET d == tasks[t].ride[1].assigned_driver_id
       IN  EndSending(t, "cancelled_ok",
                      IF d # NULL /\ GetDriverById(drivers, d[1]) # NULL /\ delivered
                      THEN {Note(TelegramIdOf(drivers, d[1]), "ride_cancelled")}
                      ELSE {})
    /\ UNCHANGED <<drivers, ratings, won, lost, scored, conv, user_data, call>>

\* ------------------------------------------------------------------ complete_ride_cmd
StartComplete(t, u, r) ==
    /\ Begin(t, "complete", "set_status", u, r)
    /\ UNCHANGED <<drivers, rides, ratings, won, lost, scored, conv, user_data, call>>
    /\ Quiet

\* await db.set_ride_status(ride_id, 'completed')
CompleteSetStatus(t) ==
    /\ tasks[t].h = "complete" /\ tasks[t].pc = "set_status"
    /\ rides' = SetRideStatus(rides, tasks[t].ride_id, "completed")
    /\ tasks' = [tasks EXCEPT ![t].pre = StatusOf(rides, tasks[t].ride_id),
                              ![t].pc = "get_ride"]
    /\ UNCHANGED <<drivers, ratings, won, lost, scored, conv, user_data, call>>
    /\ Quiet

\* ride = await db.get_ride(ride_id); if the row exists, the rating prompt
\* is sent to the rider (no try block: a send that fails ends the command
\* with its exception); then 'Ride <id> marked as completed. Thanks!'.
CompleteGetRide(t, delivered) ==
    /\ tasks[t].h = "complete" /\ tasks[t].pc = "get_ride"
    /\ LET ride == GetRide(rides, tasks[t].ride_id)
       IN  IF ride = NULL THEN End(t, "completed_ok")
           ELSE IF delivered
                THEN EndSending(t, "completed_ok",
                                {Note(ride[1].rider_tg_id, "rate_prompt")})
                ELSE End(t, "raised")
    /\ UNCHANGED <<drivers, rides, ratings, won, lost, scored, conv, user_data, call>>

\* ------------------------------------------------------------------ rate_trip_callback
\* Rate handlers that have not yet inserted their ratings row.
RatingsToCome == Cardinality({t \in TaskIds : tasks[t].h = "rate"
                                              /\ tasks[t].pc \in {"get_ride", "add_rating"}})

StartRate(t, u, r, s) ==
    /\ Len(ratings) + RatingsToCome < MaxRatings
    /\ Free(t)
    /\ tasks' = [tasks EXCEPT ![t] = [Idle EXCEPT !.h = "rate", !.pc = "get_ride",
                                      !.user = u, !.ride_id = r, !.score = s]]
    /\ UNCHANGED <<drivers, rides, ratings, won, lost, scored, conv, user_data, call>>
    /\ Quiet

\* ride = await db.get_ride(ride_id)
\* if ride and ride['rider_tg_id'] == user_id and ride['assigned_driver_id']: ...
RateGetRide(t) ==
    /\ tasks[t].h = "rate" /\ tasks[t].pc = "get_ride"
    /\ LET ride == GetRide(rides, tasks[t].ride_id)
       IN  IF /\ ride # NULL
              /\ ride[1].rider_tg_id = tasks[t].user
              /\ ride[1].assigned_driver_id # NULL
           THEN /\ tasks' = [tasks EXCEPT ![t].ride = <<RideView(ride[1])>>,
                                          ![t].pc = "add_rating"]
                /\ Quiet
           ELSE End(t, "none")
    /\ UNCHANGED <<drivers, rides, ratings, won, lost, scored, conv, user_data, call>>

\* await db.add_rating(ride_id, ride['assigned_driver_id'], user_id, rating)
RateAddRating(t) ==
    /\ tasks[t].h = "rate" /\ tasks[t].pc = "add_rating"
    /\ ratings' = AddRating(ratings, tasks[t].ride_id,
                            tasks[t].ride[1].assigned_driver_id[1],
                            tasks[t].user, tasks[t].score)
    /\ tasks' = [tasks EXCEPT ![t].pc = "read_driver"]
    /\ UNCHANGED <<drivers, rides, won, lost, scored, conv, user_data, call>>
    /\ Quiet

\* await db.update_driver_rating(...), first half:
\* driver = await self.get_driver_by_id(driver_id); if driver: ...
RateReadDriver(t) ==
    /\ tasks[t].h = "rate" /\ tasks[t].pc = "read_driver"
    /\ LET d      == tasks[t].ride[1].assigned_driver_id[1]
           driver == GetDriverById(drivers, d)
       IN  /\ scored' = [scored EXCEPT ![d][tasks[t].score] = @ + 1]
           /\ IF driver # NULL
              THEN /\ tasks' = [tasks EXCEPT
                                  ![t].cur = <<[rating |-> driver[1].rating,
                                                total_ratings |-> driver[1].total_ratings]>>,
                                  ![t].pc = "write_driver"]
                   /\ Quiet
              ELSE End(t, "thanks_for_rating")
    /\ UNCHANGED <<drivers, rides, ratings, won, lost, conv, user_data, call>>

\* await db.update_driver_rating(...), second half: the UPDATE with the
\* average computed from the row read before; then the thanks, and the
\* driver is told (in a try block: delivered says whether the send went
\* through).
RateWriteDriver(t, delivered) ==
    /\ tasks[t].h = "rate" /\ tasks[t].pc = "write_driver"
    /\ LET d   == tasks[t].ride[1].assigned_driver_id[1]
           cur == tasks[t].cur[1]
       IN  /\ drivers' = SetDriverRating(drivers, d,
                            NewAverage(cur.rating, cur.total_ratings, tasks[t].score))
           /\ EndSending(t, "thanks_for_rating",
                         IF delivered
                         THEN {Note(TelegramIdOf(drivers, d), "rating_received")}
                         ELSE {})
    /\ UNCHANGED <<rides, ratings, won, lost, scored, conv, user_data, call>>

\* The ledger call the handler is waiting for raises (the connection to the
\* database is lost, the pool times out): rate_trip_callback has no try
\* block around its ledger calls, so it ends there with the exception.
RateFails(t) ==
    /\ tasks[t].h = "rate"
    /\ End(t, "raised")
    /\ UNCHANGED <<drivers, rides, ratings, won, lost, scored, conv, user_data, call>>

\* ------------------------------------------------------------------ specification
Next ==
    \/ \E u \in Riders : CreateRide(u)
    \/ \E r \in RideIds, f \in Fares : SetFinalFare(r, f)
    \/ \E t \in TaskIds, u \in Users, r \in RideIds : StartAccept(t, u, r)
    \/ \E t \in TaskIds : AcceptGetDriver(t)
    \/ \E t \in TaskIds : AcceptClaim(t)
    \/ \E t \in TaskIds : AcceptGetRide(t)
    \/ \E t \in TaskIds, n \in 0..3 : AcceptSetStatus(t, n)
    \/ \E t \in TaskIds, u \in Users, r \in RideIds : StartCancel(t, u, r)
    \/ \E t \in TaskIds : CancelGetRide(t)
    \/ \E t \in TaskIds, ts \in ClockReadings(rides), ok \in BOOLEAN :
          CancelWrite(t, ts, ok)
    \/ \E t \in TaskIds, u \in Users, r \in RideIds : StartComplete(t, u, r)
    \/ \E t \in TaskIds : CompleteSetStatus(t)
    \/ \E t \in TaskIds, ok \in BOOLEAN : CompleteGetRide(t, ok)

Spec == Init /\ [][Next]_vars

\* Only claims race: rides are requested and users press Accept (every
\* notification goes through).
NextClaim ==
    \/ \E u \in Riders : CreateRide(u)
    \/ \E t \in TaskIds, u \in Users, r \in RideIds : StartAccept(t, u, r)
    \/ \E t \in TaskIds : AcceptGetDriver(t)
    \/ \E t \in TaskIds : AcceptClaim(t)
    \/ \E t \in TaskIds : AcceptGetRide(t)
    \/ \E t \in TaskIds : AcceptSetStatus(t, 3)

SpecClaim == Init /\ [][NextClaim]_vars

\* The ledger on its own: the AsyncDB operations on rides, called in any
\* order with any arguments (every interleaving of the handlers above is
\* such a sequence of calls).
DbAssign(r, d) ==
    /\ LET res == AssignRideIfUnassigned(rides, r, d)
       IN  /\ rides' = res.rides
           /\ won' = IF res.ok THEN [won EXCEPT ![r] = Append(@, d)] ELSE won
           /\ lost' = IF r \in DOMAIN rides /\ ~res.ok
                      THEN [lost EXCEPT ![r] = @ \cup {d}] ELSE lost
    /\ UNCHANGED <<drivers, ratings, tasks, scored, conv, user_data, call>>
    /\ Quiet

DbSetStatus(r, status) ==
    /\ rides' = SetRideStatus(rides, r, status)
    /\ UNCHANGED <<drivers, ratings, tasks, won, lost, scored, conv, user_data, call>>
    /\ Quiet

DbCancel(r, ts) ==
    /\ rides' = CancelRide(rides, r, "rider", ts)
    /\ UNCHANGED <<drivers, ratings, tasks, won, lost, scored, conv, user_data, call>>
    /\ Quiet

NextLedger ==
    \/ \E u \in Riders : CreateRide(u)
    \/ \E r \in RideIds, d \in {drivers[u].id : u \in DOMAIN drivers} : DbAssign(r, d)
    \/ \E r \in RideIds, st \in Statuses : DbSetStatus(r, st)
    \/ \E r \in RideIds, ts \in ClockReadings(rides) : DbCancel(r, ts)
    \/ \E r \in RideIds, f \in Fares : SetFinalFare(r, f)

SpecLedger == Init /\ [][NextLedger]_vars

\* update_driver_rating applied sequentially: each call runs from its read
\* of the driver row to its UPDATE before the next call starts.
UpdateDriverRating(driver_id, new_rating) ==
    /\ LET driver == GetDriverById(drivers, driver_id)
       IN  /\ driver # NULL
           /\ driver[1].total_ratings < MaxCalls
           /\ drivers' = SetDriverRating(drivers, driver_id,
                             NewAverage(driver[1].rating, driver[1].total_ratings,
                                        new_rating))
    /\ scored' = [scored EXCEPT ![driver_id][new_rating] = @ + 1]
    /\ UNCHANGED <<rides, ratings, tasks, won, lost, conv, user_data, call>>
    /\ Quiet

NextSequential ==
    \E d \in {drivers[u].id : u \in DOMAIN drivers}, s \in Scores \cap RatingButtons :
        UpdateDriverRating(d, s)

SpecSequential == Init /\ [][NextSequential]_vars

\* The rider whose requests are followed: ride_conv keeps its state and
\* user_data per user, so the conversations of two riders share nothing but
\* the rides table.
Requesters == {"u1"}

\* A rider talks to ride_conv: every message and callback the conversation
\* accepts in its current state, every outcome of the Telegram and ledger
\* calls of its handlers.
NextRequest ==
    \/ \E u \in Requesters, ok \in BOOLEAN : RequestStart(u, ok)
    \/ \E u \in Requesters, msg \in Messages, ok \in BOOLEAN : PickupReceived(u, msg, ok)
    \/ \E u \in Requesters, msg \in Messages, ok \in BOOLEAN : DropReceived(u, msg, ok)
    \/ \E u \in Requesters, num \in GroupSizes, n \in 0..2 : GroupCallback(u, num, n)
    \/ \E u \in Requesters, confirm \in ConfirmData, dispatch_set, created \in BOOLEAN,
          n \in 0..4 : ConfirmCallback(u, confirm, dispatch_set, created, n)
    \/ \E u \in Requesters, ok \in BOOLEAN : CancelConv(u, ok)

SpecRequest == Init /\ [][NextRequest]_vars

\* A rider talks to the ride_conv of src/handlers.py.
NextHandlersRequest ==
    \/ \E u \in Requesters, ok \in BOOLEAN : RequestStart(u, ok)
    \/ \E u \in Requesters, msg \in Messages, ok \in BOOLEAN : PickupReceived(u, msg, ok)
    \/ \E u \in Requesters, msg \in Messages, ok \in BOOLEAN : HandlersDropReceived(u, msg, ok)
    \/ \E u \in Requesters, num \in GroupSizes, n \in 0..2 : HandlersGroupCallback(u, num, n)
    \/ \E u \in Requesters, confirm \in ConfirmData, dispatch_set, created \in BOOLEAN,
          n \in 0..4 : HandlersConfirmCallback(u, confirm, dispatch_set, created, n)
    \/ \E u \in Requesters, ok \in BOOLEAN : CancelConv(u, ok)

SpecHandlersRequest == Init /\ [][NextHandlersRequest]_vars

\* A later request: the rider has been through ride_conv before, with the
\* pickup (2, 37), the typed address 'Old Town' and 'group:5', and pressed
\* 'confirm:no'.  None of these values can be entered in the conversation
\* that follows.
LeftoverUserData ==
    [pickup_lat |-> <<2>>, pickup_lng |-> <<37>>,
     drop_lat |-> NULL, drop_lng |-> NULL, drop_text |-> <<"Old Town">>,
     distance_km |-> <<0>>, estimated_trip_time |-> <<0>>,
     group_size |-> <<5>>,
     fare_estimate |-> <<CalculateFareEstimate(DoubleOfInt(0), 0, 5)>>]

InitLaterRequest ==
    /\ drivers = [u \in DOMAIN DriverIdOf |-> RegisteredDriver(u)]
    /\ rides = <<>>
    /\ ratings = <<>>
    /\ tasks = [t \in TaskIds |-> Idle]
    /\ won = [r \in RideIds |-> <<>>]
    /\ lost = [r \in RideIds |-> {}]
    /\ scored = [d \in {DriverIdOf[u] : u \in DOMAIN DriverIdOf} |-> NoScores]
    /\ reply = "none"
    /\ sent = {}
    /\ conv = [u \in Riders |-> "END"]
    /\ user_data = [u \in Riders |-> IF u \in Requesters THEN LeftoverUserData
                                    ELSE EmptyUserData]
    /\ call = ConfirmCall("confirm:no")

SpecLaterRequest == InitLaterRequest /\ [][NextRequest]_vars

\* ------------------------------------------------------------------ estimate calls
\* Distances handed to the estimate functions, in km, as fractions
\* <<numerator, denominator>>: the float is the double nearest to the
\* fraction.
Distances == {<<0, 1>>, <<1, 32>>, <<1, 16>>, <<4, 10>>, <<223, 100>>, <<615, 10>>}

\* Minutes handed to calculate_fare_estimate.
Minutes == {0, 1, 4}

\* Group sizes handed to calculate_fare_estimate.
Groups == 1..MaxGroup

\* Speeds handed to estimate_travel_time, in km/h.
Speeds == {20, avg_speed_kmh}

InitEstimate ==
    /\ drivers = [u \in DOMAIN DriverIdOf |->
                    RegisteredDriver(u)]
    /\ rides = <<>>
    /\ ratings = <<>>
    /\ tasks = [t \in TaskIds |-> Idle]
    /\ won = [r \in RideIds |-> <<>>]
    /\ lost = [r \in RideIds |-> {}]
    /\ scored = [d \in {DriverIdOf[u] : u \in DOMAIN DriverIdOf} |-> NoScores]
    /\ reply = "none"
    /\ sent = {}
    /\ NoConversation
    /\ call \in [distance_km : Distances, estimated_time_min : Minutes,
                 group_size : Groups, avg_speed_kmh : Speeds,
                 fare : {NULL}, minutes : {NULL}]

\* The float of a distance of Distances.
DoubleOf(distance) == DoubleOfFraction(distance[1], distance[2])

\* calculate_fare_estimate(distance_km, estimated_time_min, group_size)
\* returns.
CallFareEstimate ==
    /\ call.fare = NULL
    /\ call' = [call EXCEPT !.fare =
                   <<CalculateFareEstimate(DoubleOf(call.distance_km),
                                           call.estimated_time_min,
                                           call.group_size)>>]
    /\ UNCHANGED <<drivers, rides, ratings, tasks, won, lost, scored, reply, sent,
                   conv, user_data>>

\* estimate_travel_time(distance_km, avg_speed_kmh) returns.
CallTravelTime ==
    /\ call.minutes = NULL
    /\ call' = [call EXCEPT !.minutes =
                   <<EstimateTravelTimeAt(DoubleOf(call.distance_km),
                                          call.avg_speed_kmh)>>]
    /\ UNCHANGED <<drivers, rides, ratings, tasks, won, lost, scored, reply, sent,
                   conv, user_data>>

NextEstimate ==
    \/ CallFareEstimate
    \/ CallTravelTime

SpecEstimate == InitEstimate /\ [][NextEstimate]_vars

\* ------------------------------------------------------------------ registration
\* The users whose driver messages are followed: one who is no driver yet
\* and one who is.
Registrants == {"u1", "u2"}

\* What driver_name stored as drv_name.
Names == {"Ann", "Bea"}

\* What driver_reg stored as drv_reg.
RegNos == {"KBA 123A"}

\* Texts sent in state DRV_PHONE.
PhoneTexts == {"Cancel", "0700"}

\* Arguments of add_or_update_driver, each of them optional.
NameArgs == {NULL} \cup {<<n>> : n \in Names}
PhoneArgs == {NULL, <<"0700">>}
RegNoArgs == {NULL} \cup {<<r>> : r \in RegNos}

\* The values the drivers sequence can hand to a new row: above every id of
\* the table (an upsert that hits a conflict has taken a value as well).
NextDriverIds(ds) ==
    {id \in 1..MaxDriverId : \A u \in DOMAIN ds : ds[u].id < id}

\* Driver u2 has been rated: once, with 4.
RatedOnce(row) == [row EXCEPT !.rating = DecOfInt(4), !.total_ratings = 1]

InitRegistration ==
    /\ \E rated \in BOOLEAN :
          /\ drivers = [u \in DOMAIN DriverIdOf |->
                          IF rated /\ u = "u2" THEN RatedOnce(RegisteredDriver(u))
                          ELSE RegisteredDriver(u)]
          /\ scored = [d \in {DriverIdOf[u] : u \in DOMAIN DriverIdOf} |->
                          IF rated /\ d = DriverIdOf["u2"]
                          THEN [NoScores EXCEPT ![4] = 1] ELSE NoScores]
    /\ rides = <<>>
    /\ ratings = <<>>
    /\ tasks = [t \in TaskIds |-> Idle]
    /\ won = [r \in RideIds |-> <<>>]
    /\ lost = [r \in RideIds |-> {}]
    /\ reply = "none"
    /\ sent = {}
    /\ NoConversation
    /\ call = NoCall

\* add_or_update_driver(tg_id, name, phone, reg_no) called and committed.
DbAddOrUpdateDriver(tg_id, name, phone, reg_no) ==
    /\ \E id \in NextDriverIds(drivers) \cup {0} :
          /\ (id = 0) = (tg_id \in DOMAIN drivers)
          /\ drivers' = AddOrUpdateDriver(drivers, tg_id, name, phone, reg_no, id)
    /\ call' = [tg_id |-> tg_id, name |-> name, phone |-> phone, reg_no |-> reg_no]
    /\ UNCHANGED <<rides, ratings, tasks, won, lost, scored, conv, user_data>>
    /\ Quiet

\* driver_phone: a text arrives in state DRV_PHONE of the registration
\* conversation; drv_name and drv_reg are what driver_name and driver_reg
\* stored in user_data. outcome: the database call raises ("db_fails"), the
\* success message cannot be sent ("reply_fails"), or neither ("ok").
DriverPhone(u, text, drv_name, drv_reg, outcome) ==
    /\ sent' = {}
    /\ UNCHANGED <<rides, ratings, tasks, won, lost, scored, conv, user_data>>
    /\ IF text = "Cancel"
       THEN /\ reply' = "registration_cancelled"
            /\ UNCHANGED <<drivers, call>>
       ELSE IF outcome = "db_fails"
       THEN /\ reply' = "failed_to_register"
            /\ call' = NoCall
            /\ UNCHANGED drivers
       ELSE /\ \E id \in NextDriverIds(drivers) \cup {0} :
                  /\ (id = 0) = (u \in DOMAIN drivers)
                  /\ drivers' = AddOrUpdateDriver(drivers, u, <<drv_name>>, <<text>>,
                                                  <<drv_reg>>, id)
            /\ call' = [tg_id |-> u, name |-> <<drv_name>>, phone |-> <<text>>,
                        reg_no |-> <<drv_reg>>]
            /\ reply' = IF outcome = "ok" THEN "registration_successful"
                        ELSE "failed_to_register"

\* go_online: only a registered driver is set online.
GoOnline(u) ==
    /\ sent' = {}
    /\ call' = NoCall
    /\ UNCHANGED <<rides, ratings, tasks, won, lost, scored, conv, user_data>>
    /\ IF GetDriverByTg(drivers, u) = NULL
       THEN /\ reply' = "not_registered"
            /\ UNCHANGED drivers
       ELSE /\ drivers' = SetDriverStatus(drivers, u, "online")
            /\ reply' = "now_online"

\* location_handler (src/handlers.py, the same in bot/rides.py): a message
\* with or without a location.
LocationHandler(u, location) ==
    /\ sent' = {}
    /\ call' = NoCall
    /\ UNCHANGED <<rides, ratings, tasks, won, lost, scored, conv, user_data>>
    /\ IF location = NULL
       THEN /\ reply' = "use_location_button"
            /\ UNCHANGED drivers
       ELSE IF GetDriverByTg(drivers, u) # NULL
       THEN /\ drivers' = UpdateDriverLocation(drivers, u, location[1][1], location[1][2])
            /\ reply' = "location_updated"
       ELSE /\ reply' = "location_received"
            /\ UNCHANGED drivers

NextRegistration ==
    \/ \E u \in Registrants, name \in NameArgs, phone \in PhoneArgs, reg_no \in RegNoArgs :
          DbAddOrUpdateDriver(u, name, phone, reg_no)
    \/ \E u \in Registrants, text \in PhoneTexts, drv_name \in Names, drv_reg \in RegNos,
          outcome \in {"ok", "db_fails", "reply_fails"} :
          DriverPhone(u, text, drv_name, drv_reg, outcome)
    \/ \E u \in Registrants : GoOnline(u)
    \/ \E u \in Registrants, location \in {NULL, <<<<1, 36>>>>} : LocationHandler(u, location)

SpecRegistration == InitRegistration /\ [][NextRegistration]_vars

\* Riders rate a ride that exists: the rides table holds one ride of rider
\* u1 in a state the lifecycle above reaches.
RatingStarts ==
    {<<"searching", NULL>>, <<"driver_assigned", <<1>>>>,
     <<"completed", <<1>>>>, <<"cancelled", <<1>>>>}

RideIn(status, driver) ==
    [rider_tg_id |-> "u1",
     pickup_lat |-> <<1>>, pickup_lng |-> <<36>>,
     drop_lat |-> NULL, drop_lng |-> NULL, drop_text |-> NULL,
     group_size |-> 1,
     fare_estimate |-> FareWithoutDestination,
     estimated_pickup_time |-> estimated_pickup_time,
     estimated_trip_time |-> 0,
     status |-> status, assigned_driver_id |-> driver,
     final_fare |-> NULL,
     cancelled_at |-> IF status = "cancelled" THEN <<1>> ELSE NULL,
     cancelled_by |-> IF status = "cancelled" THEN <<"rider">> ELSE NULL]

\* One ride of rider u1 has been posted and users press Accept on it,
\* through either accept_callback version; the notifications can fail.
InitAccept ==
    /\ drivers = [u \in DOMAIN DriverIdOf |->
                    RegisteredDriver(u)]
    /\ rides = <<RideIn("searching", NULL)>>
    /\ ratings = <<>>
    /\ tasks = [t \in TaskIds |-> Idle]
    /\ won = [r \in RideIds |-> <<>>]
    /\ lost = [r \in RideIds |-> {}]
    /\ scored = [d \in {DriverIdOf[u] : u \in DOMAIN DriverIdOf} |-> NoScores]
    /\ reply = "none"
    /\ sent = {}
    /\ NoConversation
    /\ call = NoCall

NextAccept ==
    \/ \E t \in TaskIds, u \in Users, r \in DOMAIN rides : StartAccept(t, u, r)
    \/ \E t \in TaskIds, u \in Users, r \in DOMAIN rides : StartHandlersAccept(t, u, r)
    \/ \E t \in TaskIds : AcceptGetDriver(t)
    \/ \E t \in TaskIds : AcceptClaim(t)
    \/ \E t \in TaskIds : AcceptGetRide(t)
    \/ \E t \in TaskIds, n \in 0..3 : AcceptSetStatus(t, n)
    \/ \E t \in TaskIds, e, rt, dt \in BOOLEAN : HandlersAcceptGetRide(t, e, rt, dt)

SpecAccept == InitAccept /\ [][NextAccept]_vars

InitRating ==
    /\ drivers = [u \in DOMAIN DriverIdOf |->
                    RegisteredDriver(u)]
    /\ rides \in {<<RideIn(sd[1], sd[2])>> : sd \in RatingStarts}
    /\ ratings = <<>>
    /\ tasks = [t \in TaskIds |-> Idle]
    /\ won = [r \in RideIds |-> IF rides[r].assigned_driver_id = NULL THEN <<>>
                                ELSE rides[r].assigned_driver_id]
    /\ lost = [r \in RideIds |-> {}]
    /\ scored = [d \in {DriverIdOf[u] : u \in DOMAIN DriverIdOf} |-> NoScores]
    /\ reply = "none"
    /\ sent = {}
    /\ NoConversation
    /\ call = NoCall

NextRating ==
    \/ \E t \in TaskIds, u \in Users, r \in RideIds, s \in Scores : StartRate(t, u, r, s)
    \/ \E t \in TaskIds : RateGetRide(t)
    \/ \E t \in TaskIds : RateAddRating(t)
    \/ \E t \in TaskIds : RateReadDriver(t)
    \/ \E t \in TaskIds, ok \in BOOLEAN : RateWriteDriver(t, ok)

SpecRating == InitRating /\ [][NextRating]_vars

\* The same, with ledger calls that can fail.
NextRatingFailing ==
    \/ NextRating
    \/ \E t \in TaskIds : RateFails(t)

SpecRatingFailing == InitRating /\ [][NextRatingFailing]_vars

\* ------------------------------------------------------------------ posted rides
\* Rides that have been posted: one more than the rides requested above, so
\* that there always is another ride.
PostedRideIds == 1..(MaxRides + 1)

InitPosted ==
    /\ drivers = [u \in DOMAIN DriverIdOf |-> RegisteredDriver(u)]
    /\ rides = [r \in PostedRideIds |-> RideIn("searching", NULL)]
    /\ ratings = <<>>
    /\ tasks = [t \in TaskIds |-> Idle]
    /\ won = [r \in PostedRideIds |-> <<>>]
    /\ lost = [r \in PostedRideIds |-> {}]
    /\ scored = [d \in {DriverIdOf[u] : u \in DOMAIN DriverIdOf} |-> NoScores]
    /\ reply = "none"
    /\ sent = {}
    /\ NoConversation
    /\ call = NoCall

\* The handlers of bot/rides.py on the posted rides, one handler at a time
\* (every notification goes through), and drivers going online.
NextPosted ==
    \/ \E u \in Users, r \in DOMAIN rides : StartAccept(1, u, r)
    \/ AcceptGetDriver(1)
    \/ AcceptClaim(1)
    \/ AcceptGetRide(1)
    \/ AcceptSetStatus(1, 3)
    \/ \E u \in Users, r \in DOMAIN rides : StartCancel(1, u, r)
    \/ CancelGetRide(1)
    \/ \E ts \in ClockReadings(rides) : CancelWrite(1, ts, TRUE)
    \/ \E u \in Users, r \in DOMAIN rides : StartComplete(1, u, r)
    \/ CompleteSetStatus(1)
    \/ CompleteGetRide(1, TRUE)
    \/ \E u \in Registrants : GoOnline(u)

SpecPosted == InitPosted /\ [][NextPosted]_vars

\* The AsyncDB writes on the posted rides, called in any order with any
\* arguments, and drivers going online.
NextPostedLedger ==
    \/ \E r \in DOMAIN rides, d \in {drivers[u].id : u \in DOMAIN drivers} : DbAssign(r, d)
    \/ \E r \in DOMAIN rides, st \in Statuses : DbSetStatus(r, st)
    \/ \E r \in DOMAIN rides, ts \in ClockReadings(rides) : DbCancel(r, ts)
    \/ \E r \in DOMAIN rides, f \in Fares : SetFinalFare(r, f)
    \/ \E u \in Registrants : GoOnline(u)

SpecPostedLedger == InitPosted /\ [][NextPostedLedger]_vars

\* ------------------------------------------------------------------ ride history
\* Rides per page (ride_history.py:6, handlers.py:32, tuktuk_bot.py:596).
PAGE_SIZE == 5

\* A rides row as the history queries see it.
HistoryRide(rider_tg_id, driver, created_at) ==
    [rider_tg_id |-> rider_tg_id,
     assigned_driver_id |-> driver,
     status |-> IF driver = NULL THEN "searching" ELSE "assigned",
     created_at |-> created_at]

\* ORDER BY created_at DESC on the rows S of rs: every order of the ids in
\* which no row comes before a newer one.  SQL leaves the order of rows
\* with equal created_at open, and each query settles it anew.
RECURSIVE NewestFirst(_, _)
NewestFirst(rs, S) ==
    IF S = {} THEN {<<>>}
    ELSE UNION {{<<x>> \o rest : rest \in NewestFirst(rs, S \ {x})} :
                  x \in {y \in S : \A z \in S : rs[z].created_at <= rs[y].created_at}}

\* OFFSET offset LIMIT limit of an ordered result.
Page(ordered, offset, limit) ==
    IF offset >= Len(ordered) THEN <<>>
    ELSE SubSeq(ordered, offset + 1, Min(Len(ordered), offset + limit))

\* ceil(total / size) for total >= 0.
CeilDiv(total, size) == (total + size - 1) \div size

Max(x, y) == IF x >= y THEN x ELSE y

\* AsyncDB.get_rides_by_rider of src/tuktuk_db.py: the results the query
\* can give, each the ids of the rows and the count.
TuktukGetRidesByRider(rs, rider_tg_id, offset, limit) ==
    LET S == {r \in DOMAIN rs : rs[r].rider_tg_id = rider_tg_id}
    IN  {[rows |-> Page(o, offset, limit), total |-> Cardinality(S)] :
            o \in NewestFirst(rs, S)}

\* AsyncDB.get_rides_by_driver of src/tuktuk_db.py.
TuktukGetRidesByDriver(rs, driver_id, offset, limit) ==
    LET S == {r \in DOMAIN rs : rs[r].assigned_driver_id = <<driver_id>>}
    IN  {[rows |-> Page(o, offset, limit), total |-> Cardinality(S)] :
            o \in NewestFirst(rs, S)}

\* AsyncDB.count_rides_by_rider of src/bot/db.py.
CountRidesByRider(rs, rider_tg_id) ==
    Cardinality({r \in DOMAIN rs : rs[r].rider_tg_id = rider_tg_id})

\* AsyncDB.get_rides_by_rider of src/bot/db.py: the results the query can
\* give.
GetRidesByRider(rs, rider_tg_id, limit, offset) ==
    {Page(o, offset, limit) :
        o \in NewestFirst(rs, {r \in DOMAIN rs : rs[r].rider_tg_id = rider_tg_id})}

\* The history call a specification follows: the implementation, the
\* caller, the role, user id and page named by the callback data, the ids of
\* the rides shown to the caller, the buttons offered with them, and, for
\* the pages of bot/ride_history.py, what each page showed when the caller
\* last looked at it since 'My Rides'.
HistoryCall(handler, caller, role, uid, page, rows, prev, next, pages) ==
    [handler |-> handler, caller |-> caller, role |-> role, uid |-> uid,
     page |-> page, rows |-> rows, prev |-> prev, next |-> next,
     pages |-> pages]

NoHistoryCall == HistoryCall("none", "u1", "rider", "u1", 0, <<>>, FALSE, FALSE, <<>>)

\* The users and pages a 'rides:<role>:<id>:<page>' callback can name: a
\* telegram id as rider, an id of the drivers table as driver.
NamedUsers ==
    {<<"rider", u>> : u \in Users} \cup {<<"driver", d>> : d \in 1..(Cardinality(DOMAIN DriverIdOf) + 1)}

RidesPages == {0, 1}

\* send_rides_page of src/handlers.py and src/tuktuk_bot.py: the page
\* shown for one result of the query.
RidesPage(handler, caller, role, uid, page, res, delivered) ==
    LET total_pages == Max(1, (res.total + PAGE_SIZE - 1) \div PAGE_SIZE)
    IN  IF delivered
        THEN HistoryCall(handler, caller, role, uid, page, res.rows,
                         page > 0, (page + 1) < total_pages, <<>>)
        ELSE HistoryCall(handler, caller, role, uid, page, <<>>, FALSE, FALSE, <<>>)

SendRidesPage(handler, caller, role, uid, page, delivered) ==
    \E res \in IF role = "rider"
               THEN TuktukGetRidesByRider(rides, uid, page * PAGE_SIZE, PAGE_SIZE)
               ELSE TuktukGetRidesByDriver(rides, uid, page * PAGE_SIZE, PAGE_SIZE) :
        /\ call' = RidesPage(handler, caller, role, uid, page, res, delivered)
        /\ reply' = IF ~delivered THEN "none"
                    ELSE IF res.rows = <<>> THEN "no_rides_found" ELSE "rides_page"

\* The callback is turned away with 'Not allowed'.
NotAllowed(handler, caller, role, uid, page) ==
    /\ call' = HistoryCall(handler, caller, role, uid, page, <<>>, FALSE, FALSE, <<>>)
    /\ reply' = "not_allowed"

\* rides_callback_handler of src/tuktuk_bot.py for the data
\* 'rides:<role>:<uid>:<page>': the page of the user the data names is put
\* into the caller's message, or, when the edit fails, sent to the caller
\* (delivered: one of the two went through).
TuktukBotRidesCallback(caller, role, uid, page, delivered) ==
    /\ SendRidesPage("tuktuk_bot", caller, role, uid, page, delivered)
    /\ sent' = {}
    /\ UNCHANGED <<drivers, rides, ratings, tasks, won, lost, scored, conv, user_data>>

\* rides_callback_handler of src/handlers.py: the rider's page for the
\* caller whose telegram id the data names, the driver's page for the caller
\* whose drivers row has the id the data names (the edit is in a try block).
HandlersRidesCallback(caller, role, uid, page, delivered) ==
    /\ IF role = "rider"
       THEN IF caller # uid
            THEN NotAllowed("handlers", caller, role, uid, page)
            ELSE SendRidesPage("handlers", caller, role, uid, page, delivered)
       ELSE LET drv == GetDriverByTg(drivers, caller)
            IN  IF drv = NULL \/ drv[1].id # uid
                THEN NotAllowed("handlers", caller, role, uid, page)
                ELSE SendRidesPage("handlers", caller, role, uid, page, delivered)
    /\ sent' = {}
    /\ UNCHANGED <<drivers, rides, ratings, tasks, won, lost, scored, conv, user_data>>

\* paginate_kb: the buttons offered with a page.
PaginateKb(page, total_pages) == [prev |-> page > 1, next |-> page < total_pages]

\* send_page of bot/ride_history.py for one result of the query; looked
\* holds what the pages showed before.
SendPage(user_id, page, looked, delivered) ==
    LET total       == CountRidesByRider(rides, user_id)
        total_pages == Max(1, CeilDiv(total, PAGE_SIZE))
        offset      == (page - 1) * PAGE_SIZE
    IN  \E rows \in GetRidesByRider(rides, user_id, PAGE_SIZE, offset) :
            LET kb == IF rows = <<>> THEN [prev |-> FALSE, next |-> FALSE]
                      ELSE PaginateKb(page, total_pages)
            IN  /\ call' = IF delivered
                           THEN HistoryCall("bot", user_id, "rider", user_id, page,
                                            rows, kb.prev, kb.next,
                                            (page :> rows) @@ looked)
                           ELSE HistoryCall("bot", user_id, "rider", user_id, page,
                                            <<>>, FALSE, FALSE, looked)
                /\ reply' = IF ~delivered THEN "raised"
                            ELSE IF rows = <<>> THEN "no_rides_yet" ELSE "rides_page"

\* my_rides_cmd of bot/ride_history.py: page 1 of the caller's rides.
MyRidesCmd(caller, delivered) ==
    /\ SendPage(caller, 1, <<>>, delivered)
    /\ sent' = {}
    /\ UNCHANGED <<drivers, rides, ratings, tasks, won, lost, scored, conv, user_data>>

\* history_callback of bot/ride_history.py for the data 'history:<page>':
\* that page of the caller's rides.
HistoryCallback(caller, page, delivered) ==
    /\ SendPage(caller, page,
                IF call.handler = "bot" /\ call.caller = caller
                THEN call.pages ELSE <<>>,
                delivered)
    /\ sent' = {}
    /\ UNCHANGED <<drivers, rides, ratings, tasks, won, lost, scored, conv, user_data>>

\* int(time.time()) at the creation of n rides, one after the other.
CreationTimes(n) ==
    {ts \in [1..n -> 1..MaxTime] : \A i, j \in 1..n : i <= j => ts[i] <= ts[j]}

\* Rides tables with up to n rows of the riders in who.
RidesTables(n, who, drvs) ==
    UNION {{[r \in 1..k |-> HistoryRide(rider[r], drv[r], ts[r])] :
               rider \in [1..k -> who], drv \in [1..k -> drvs], ts \in CreationTimes(k)} :
           k \in 0..n}

\* Rides of both riders, with and without a driver, and users who press
\* the buttons of a rides page or send its callback data themselves.
InitRidesPages ==
    /\ drivers = [u \in DOMAIN DriverIdOf |-> RegisteredDriver(u)]
    /\ rides \in RidesTables(MaxRides + 1, Riders, {NULL, <<1>>, <<2>>})
    /\ ratings = <<>>
    /\ tasks = [t \in TaskIds |-> Idle]
    /\ won = [r \in RideIds |-> <<>>]
    /\ lost = [r \in RideIds |-> {}]
    /\ scored = [d \in {DriverIdOf[u] : u \in DOMAIN DriverIdOf} |-> NoScores]
    /\ reply = "none"
    /\ sent = {}
    /\ NoConversation
    /\ call = NoHistoryCall

NextRidesPages ==
    \/ \E caller \in Users, named \in NamedUsers, page \in RidesPages, ok \in BOOLEAN :
          TuktukBotRidesCallback(caller, named[1], named[2], page, ok)
    \/ \E caller \in Users, named \in NamedUsers, page \in RidesPages, ok \in BOOLEAN :
          HandlersRidesCallback(caller, named[1], named[2], page, ok)
    \/ \E caller \in Users, page \in 1..2, ok \in BOOLEAN :
          HistoryCallback(caller, page, ok)

SpecRidesPages == InitRidesPages /\ [][NextRidesPages]_vars

\* A rider pages through 'My Rides' of bot/ride_history.py with the
\* buttons of the page shown, while the rides table is not written.
\* Creation times of the rides of a history, oldest first: int(time.time())
\* of each create_ride, a second or none after the one before, and never
\* three rides in one second.
HistoryTimes(n) ==
    {ts \in [1..n -> 1..n] :
        /\ \A i \in 1..n : i = 1 => ts[i] = 1
        /\ \A i \in 1..n : i > 1 => ts[i] - ts[i - 1] \in {0, 1}
        /\ \A i \in 1..n : i > 2 => ts[i] > ts[i - 2]}

\* Rides tables of up to n rides without a driver of the riders in who.
HistoryTables(n, who) ==
    UNION {{[r \in 1..k |-> HistoryRide(rider[r], NULL, ts[r])] :
               rider \in [1..k -> who], ts \in HistoryTimes(k)} :
           k \in 0..n}

InitHistory ==
    /\ drivers = [u \in DOMAIN DriverIdOf |-> RegisteredDriver(u)]
    /\ rides \in HistoryTables(MaxHistory, Riders)
    /\ ratings = <<>>
    /\ tasks = [t \in TaskIds |-> Idle]
    /\ won = [r \in RideIds |-> <<>>]
    /\ lost = [r \in RideIds |-> {}]
    /\ scored = [d \in {DriverIdOf[u] : u \in DOMAIN DriverIdOf} |-> NoScores]
    /\ reply = "none"
    /\ sent = {}
    /\ NoConversation
    /\ call = NoHistoryCall

\* The pages the buttons of the page shown lead to.
OfferedPages ==
    (IF call.prev THEN {call.page - 1} ELSE {}) \cup (IF call.next THEN {call.page + 1} ELSE {})

NextHistory ==
    \/ \E u \in Requesters, ok \in BOOLEAN : MyRidesCmd(u, ok)
    \/ \E page \in OfferedPages, ok \in BOOLEAN : HistoryCallback(call.caller, page, ok)

SpecHistory == InitHistory /\ [][NextHistory]_vars

\* ------------------------------------------------------- ledger of src/db.py
\* AsyncDB of src/db.py keeps rides with the columns rider_id, driver_id,
\* start_location, end_location and status.  Each of its operations is one
\* SQL statement.

\* Locations a ride is requested between.
Places == {"Market", "Old Town"}

\* Statuses update_ride_status is called with.
LedgerStatuses == {"requested", "accepted", "cancelled"}

\* The row INSERT INTO rides ... VALUES ($1, $2, $3, 'requested') stores.
RequestedRide(rider_id, start, end) ==
    [rider_id |-> rider_id,
     driver_id |-> NULL,
     start_location |-> start,
     end_location |-> end,
     status |-> "requested"]

\* The operation of AsyncDB the latest step applied, and its arguments.
LedgerCall(op, ride_id, driver_id) == [op |-> op, ride_id |-> ride_id, driver_id |-> driver_id]

CreateRequestedRide(rider_id, start, end) ==
    /\ Len(rides) < MaxRides + 1
    /\ rides' = Append(rides, RequestedRide(rider_id, start, end))
    /\ call' = LedgerCall("create_ride", Len(rides) + 1, 0)
    /\ reply' = "row"
    /\ UNCHANGED <<drivers, ratings, tasks, won, lost, scored, sent, conv, user_data>>

\* UPDATE rides SET driver_id = $2, status = 'accepted' WHERE id = $1
\* RETURNING *: the row of the ride, or None when no ride has the id.
AssignDriver(ride_id, driver_id) ==
    /\ rides' = IF ride_id \in DOMAIN rides
                THEN [rides EXCEPT ![ride_id].driver_id = <<driver_id>>,
                                   ![ride_id].status = "accepted"]
                ELSE rides
    /\ call' = LedgerCall("assign_driver", ride_id, driver_id)
    /\ reply' = IF ride_id \in DOMAIN rides THEN "row" ELSE "None"
    /\ UNCHANGED <<drivers, ratings, tasks, won, lost, scored, sent, conv, user_data>>

\* UPDATE rides SET status = $2 WHERE id = $1 RETURNING *.
UpdateRideStatus(ride_id, status) ==
    /\ rides' = IF ride_id \in DOMAIN rides
                THEN [rides EXCEPT ![ride_id].status = status]
                ELSE rides
    /\ call' = LedgerCall("update_ride_status", ride_id, 0)
    /\ reply' = IF ride_id \in DOMAIN rides THEN "row" ELSE "None"
    /\ UNCHANGED <<drivers, ratings, tasks, won, lost, scored, sent, conv, user_data>>

InitAssignDriver ==
    /\ drivers = [u \in DOMAIN DriverIdOf |-> RegisteredDriver(u)]
    /\ rides = <<>>
    /\ ratings = <<>>
    /\ tasks = [t \in TaskIds |-> Idle]
    /\ won = [r \in RideIds |-> <<>>]
    /\ lost = [r \in RideIds |-> {}]
    /\ scored = [d \in {DriverIdOf[u] : u \in DOMAIN DriverIdOf} |-> NoScores]
    /\ reply = "none"
    /\ sent = {}
    /\ NoConversation
    /\ call = LedgerCall("none", 0, 0)

NextAssignDriver ==
    \/ \E rider_id \in Riders, start, end \in Places : CreateRequestedRide(rider_id, start, end)
    \/ \E ride_id \in 1..(MaxRides + 2), u \in DOMAIN DriverIdOf : AssignDriver(ride_id, DriverIdOf[u])
    \/ \E ride_id \in 1..(MaxRides + 2), status \in LedgerStatuses : UpdateRideStatus(ride_id, status)

SpecAssignDriver == InitAssignDriver /\ [][NextAssignDriver]_vars

\* ------------------------------------------------------------------ steps
\* The step is task t's call of assign_ride_if_unassigned.
IsClaimStep(t) ==
    /\ tasks[t].h \in AcceptHandlers /\ tasks[t].pc = "claim"
    /\ tasks'[t] # tasks[t]

\* The claim of task t returned False in this step.
ClaimRefused(t) ==
    /\ tasks'[t] = Idle
    /\ reply' = "already_taken"

\* The step is task t's call of cancel_ride.
IsCancelWrite(t) ==
    /\ tasks[t].h = "cancel" /\ tasks[t].pc = "cancel_ride"
    /\ tasks'[t] = Idle

\* The step is the get_ride of task t's cancel_trip_callback.
IsCancelRead(t) ==
    /\ tasks[t].h = "cancel" /\ tasks[t].pc = "get_ride"
    /\ tasks'[t] # tasks[t]

\* The step is the set_ride_status(ride_id, 'completed') of task t.
IsCompleteWrite(t) ==
    /\ tasks[t].h = "complete" /\ tasks[t].pc = "set_status"
    /\ tasks'[t].pc = "get_ride"

\* The step is the end of task t's complete_ride_cmd.
IsCompleteEnd(t) ==
    /\ tasks[t].h = "complete" /\ tasks[t].pc = "get_ride"
    /\ tasks'[t] = Idle

\* The step is the one in which task t's accept_callback sends its
\* notifications and returns.
IsAcceptNotify(t) ==
    /\ \/ tasks[t].h = "accept" /\ tasks[t].pc = "set_status"
       \/ tasks[t].h = "handlers_accept" /\ tasks[t].pc = "get_ride"
    /\ tasks'[t] = Idle

\* The step is a step of task t's rate_trip_callback.
IsRateStep(t) ==
    /\ tasks[t].h = "rate"
    /\ tasks'[t] # tasks[t]

Exists(r) == r \in DOMAIN rides

\* The rating rows stored for driver d.
RatingRowsOf(d) == {i \in DOMAIN ratings : ratings[i].driver_id = d}

\* ------------------------------------------------------------------ claims

\* C1: of the claims executed on a ride, exactly one returns True and all
\* others return False, and the ride's assigned_driver_id is the id of the
\* driver whose claim returned True.
ClaimHasExactlyOneWinner ==
    \A r \in DOMAIN rides :
        /\ Len(won[r]) <= 1
        /\ (won[r] # <<>> \/ lost[r] # {}) =>
              /\ Len(won[r]) = 1
              /\ rides[r].assigned_driver_id = <<won[r][1]>>

\* C1 witness: a driver's accept_callback is still running after its claim
\* returned True, and the claim of another driver on the same ride has
\* returned False in the meantime.
ClaimRaceDecided ==
    \E t \in TaskIds :
        LET r == tasks[t].ride_id IN
        /\ tasks[t].h = "accept" /\ tasks[t].pc = "get_ride"
        /\ Exists(r)
        /\ won[r] = <<tasks[t].drv[1]>>
        /\ lost[r] # {}
        /\ tasks[t].drv[1] \notin lost[r]

\* C2: a ride's assigned_driver_id, once non-null, is the same in every
\* later state.
AssignedDriverNeverChanges ==
    [][\A r \in DOMAIN rides :
          rides[r].assigned_driver_id # NULL =>
              rides'[r].assigned_driver_id = rides[r].assigned_driver_id]_vars

\* C2 witness: a ride that got its driver has since been cancelled by the
\* rider, had its final fare written, and refused another driver's claim.
AssignedRideWentOn ==
    \E r \in DOMAIN rides :
        /\ rides[r].assigned_driver_id # NULL
        /\ rides[r].status = "cancelled"
        /\ rides[r].final_fare # NULL
        /\ lost[r] # {}
        /\ rides[r].assigned_driver_id[1] \notin lost[r]

\* C3: a claim on a ride the rider cancelled while it was searching returns
\* False and leaves the ride cancelled and without a driver.
CancelledRideIsNeverClaimed ==
    [][\A t \in TaskIds :
          LET r == tasks[t].ride_id IN
          (/\ IsClaimStep(t)
           /\ Exists(r)
           /\ rides[r].status = "cancelled"
           /\ rides[r].cancelled_by = <<"rider">>
           /\ rides[r].assigned_driver_id = NULL)
          => (ClaimRefused(t) /\ rides' = rides)]_vars

\* C4: in every state, a ride has a driver exactly when its status is
\* assigned, driver_assigned or completed.
DriverIffAssignedStatus ==
    \A r \in DOMAIN rides :
        rides[r].assigned_driver_id # NULL
            <=> rides[r].status \in {"assigned", "driver_assigned", "completed"}

\* The edges of the lifecycle of section 4.1.
LifecycleEdges ==
    {<<"searching", "assigned">>, <<"assigned", "driver_assigned">>,
     <<"driver_assigned", "completed">>, <<"assigned", "completed">>}
    \cup {<<s, "cancelled">> : s \in {"searching", "assigned", "driver_assigned"}}

\* C5: every change of a ride's status is an edge of the lifecycle (so
\* completed and cancelled are never left and no status is revisited).
StatusFollowsLifecycle ==
    [][\A r \in DOMAIN rides :
          rides'[r].status # rides[r].status =>
              <<rides[r].status, rides'[r].status>> \in LifecycleEdges]_vars

\* C6: complete_ride_cmd on a ride that is searching, cancelled or completed
\* leaves the ride's status as it is and does not report success.
CompleteOnlyWhenAssigned ==
    [][\A t \in TaskIds :
          LET r == tasks[t].ride_id IN
          /\ (/\ IsCompleteWrite(t)
              /\ Exists(r)
              /\ rides[r].status \in {"searching", "cancelled", "completed"})
             => rides'[r].status = rides[r].status
          /\ (/\ IsCompleteEnd(t)
              /\ tasks[t].pre \in {"searching", "cancelled", "completed"})
             => reply' = "not_possible"]_vars

\* C7: a cancel of a ride that is completed or cancelled leaves its status,
\* cancelled_at and cancelled_by as they were.
CancelOfTerminalRideChangesNothing ==
    [][\A t \in TaskIds :
          LET r == tasks[t].ride_id IN
          (/\ IsCancelWrite(t)
           /\ Exists(r)
           /\ rides[r].status \in {"completed", "cancelled"})
          => /\ rides'[r].status = rides[r].status
             /\ rides'[r].cancelled_at = rides[r].cancelled_at
             /\ rides'[r].cancelled_by = rides[r].cancelled_by]_vars

\* C8: a cancel and a complete race on an assigned ride and the complete
\* commits first; the cancel, committing second while the complete is still
\* running, leaves the ride completed and does not report success.
CancelCompleteRaceHasOneWinner ==
    [][\A t \in TaskIds :
          LET r == tasks[t].ride_id IN
          (/\ IsCancelWrite(t)
           /\ Exists(r)
           /\ rides[r].assigned_driver_id # NULL
           /\ rides[r].status = "completed"
           /\ \E c \in TaskIds \ {t} :
                 /\ tasks[c].h = "complete" /\ tasks[c].pc = "get_ride"
                 /\ tasks[c].ride_id = r
                 /\ tasks[c].pre \in {"assigned", "driver_assigned"})
          => (rides'[r] = rides[r] /\ reply' # "cancelled_ok")]_vars

\* C9: a claim, cancel or complete for a ride id that has no row changes
\* nothing and reports "not found" to its caller.
MissingRideIsReportedNotFound ==
    [][\A t \in TaskIds :
          LET r == tasks[t].ride_id IN
          /\ (IsClaimStep(t) /\ ~Exists(r))
             => (rides' = rides /\ tasks'[t] = Idle /\ reply' = "not_found")
          /\ (IsCancelRead(t) /\ ~Exists(r))
             => (rides' = rides /\ tasks'[t] = Idle /\ reply' = "not_found")
          /\ (IsCompleteWrite(t) /\ ~Exists(r))
             => rides' = rides
          /\ (IsCompleteEnd(t) /\ tasks[t].pre = "none")
             => reply' = "not_found"]_vars

\* No rate_trip_callback is between its start and its end.
NoRatingInProgress == \A t \in TaskIds : tasks[t].h # "rate"

\* C10: whenever no rating operation is in progress, a driver's rating is
\* the arithmetic mean of the scores passed to update_driver_rating for it.
RatingIsMeanOfScores ==
    NoRatingInProgress =>
        \A u \in DOMAIN drivers :
            LET d == drivers[u].id IN
            ScoreCount(d) > 0 => drivers[u].rating = MeanOfScores(d)

\* C11: applied sequentially from rating 5.0 and total_ratings 0, the calls
\* of update_driver_rating leave total_ratings = the number of calls and
\* rating = the mean of the scores, and two drivers that received the same
\* scores in any order have the same rating.
SequentialRatingIsMean ==
    \A u \in DOMAIN drivers :
        LET d == drivers[u].id IN
        /\ drivers[u].total_ratings = ScoreCount(d)
        /\ ScoreCount(d) > 0 => drivers[u].rating = MeanOfScores(d)
        /\ \A v \in DOMAIN drivers :
              scored[drivers[v].id] = scored[d] => drivers[v].rating = drivers[u].rating

\* C12: a rate_trip_callback with a score outside 1..5 adds no rating row,
\* leaves every driver's rating and total_ratings as they are, and does not
\* thank for the rating.
OutOfRangeScoreIsRejected ==
    [][\A t \in TaskIds :
          (IsRateStep(t) /\ tasks[t].score \notin RatingButtons)
          => /\ ratings' = ratings
             /\ drivers' = drivers
             /\ tasks'[t] = Idle => reply' # "thanks_for_rating"]_vars

\* C13: the ratings table holds at most one row per ride and rider, and a
\* driver's total_ratings is at most the number of rides rated for them.
OneRatingPerRideAndRider ==
    /\ \A i, j \in DOMAIN ratings :
          (/\ ratings[i].ride_id = ratings[j].ride_id
           /\ ratings[i].rider_tg_id = ratings[j].rider_tg_id) => i = j
    /\ \A u \in DOMAIN drivers :
          drivers[u].total_ratings
              <= Cardinality({ratings[i].ride_id : i \in RatingRowsOf(drivers[u].id)})

\* C14: whenever no rate_trip_callback is in progress (each has finished or
\* has failed at a ledger call), the number of rating rows stored for a
\* driver equals that driver's total_ratings.
RatingIsAllOrNothing ==
    NoRatingInProgress =>
        \A u \in DOMAIN drivers :
            Cardinality(RatingRowsOf(drivers[u].id)) = drivers[u].total_ratings

\* C15: a claim step in which assign_ride_if_unassigned returns False
\* changes no ride and no driver, sends no notification, tells the caller
\* that the ride was already taken, and ends the handler.
LosingClaimHasNoSideEffects ==
    [][\A t \in TaskIds :
          (/\ IsClaimStep(t)
           /\ ~AssignRideIfUnassigned(rides, tasks[t].ride_id, tasks[t].drv[1]).ok)
          => /\ rides' = rides
             /\ drivers' = drivers
             /\ sent' = {}
             /\ reply' = "already_taken"
             /\ tasks'[t] = Idle]_vars

\* C15 witness: a driver has just been told that the ride they claimed was
\* already taken, and the ride has the driver whose claim returned True.
LosingClaimSeen ==
    /\ reply = "already_taken"
    /\ sent = {}
    /\ \E r \in DOMAIN rides :
          /\ lost[r] # {}
          /\ Len(won[r]) = 1
          /\ rides[r].assigned_driver_id = <<won[r][1]>>

\* C16: when accept_callback (either version) ends after a notification of
\* its has failed, the ride has the caller as its driver and the status
\* assigned or driver_assigned, and the handler has not raised.
FailedNotificationKeepsClaim ==
    [][\A t \in TaskIds :
          LET r == tasks[t].ride_id IN
          (/\ IsAcceptNotify(t)
           /\ \/ reply' = "none"
              \/ Note(rides[r].rider_tg_id, "driver_assigned") \notin sent'
              \/ Note(tasks[t].user, "manage_trip") \notin sent')
          => /\ rides'[r].assigned_driver_id = tasks[t].drv
             /\ rides'[r].status \in {"assigned", "driver_assigned"}
             /\ reply' # "raised"]_vars

\* C16 witness: an accept_callback has ended with all of its notifications
\* failed (the caller got no message, nobody was notified), on a ride that
\* is assigned to its driver.
AllNotificationsFailedSeen ==
    /\ reply = "none"
    /\ sent = {}
    /\ \A t \in TaskIds : tasks[t] = Idle
    /\ \E r \in DOMAIN rides :
          /\ won[r] # <<>>
          /\ rides[r].assigned_driver_id = <<won[r][1]>>
          /\ rides[r].status \in {"assigned", "driver_assigned"}

\* C17: when complete_ride_cmd ends on a completed ride without the rating
\* prompt having reached the rider, the caller still gets 'marked as
\* completed' and the ride is still completed.
FailedRatingPromptIsNotPropagated ==
    [][\A t \in TaskIds :
          LET r == tasks[t].ride_id IN
          (/\ IsCompleteEnd(t)
           /\ Exists(r)
           /\ rides[r].status = "completed"
           /\ Note(rides[r].rider_tg_id, "rate_prompt") \notin sent')
          => /\ reply' = "completed_ok"
             /\ rides'[r].status = "completed"]_vars

\* ---------------------------------------------------------------------------
\* C18: every ride the request conversation stores through create_ride has
\* pickup coordinates and a group_size of at least 1, and is created in
\* status searching with no assigned driver (under SpecRequest nothing but
\* the conversation touches the rides table); a request without pickup
\* coordinates or with a group_size below 1 creates no ride.
CreatedRideIsValid ==
    \A r \in DOMAIN rides :
        /\ rides[r].pickup_lat # NULL
        /\ rides[r].pickup_lng # NULL
        /\ rides[r].group_size >= 1
        /\ rides[r].status = "searching"
        /\ rides[r].assigned_driver_id = NULL

\* ---------------------------------------------------------------------------
\* C19: a ride created by the conversation never has drop coordinates and a
\* drop_text together, whatever drop_received was sent (locations, typed
\* addresses, Skip, repeated and across conversations) before the
\* confirmation.
AtMostOneDropRepresentation ==
    \A r \in DOMAIN rides :
        rides[r].drop_text # NULL
            => rides[r].drop_lat = NULL /\ rides[r].drop_lng = NULL

\* C19 witness: a ride with drop coordinates and without drop_text has been
\* created, and its rider is typing an address into a later conversation's
\* user_data.
DropCoordinatesRideSeen ==
    \E r \in DOMAIN rides :
        /\ rides[r].drop_lat # NULL
        /\ rides[r].drop_lng # NULL
        /\ rides[r].drop_text = NULL
        /\ user_data[rides[r].rider_tg_id].drop_text # NULL

\* ---------------------------------------------------------------------------
\* C20: a ride stored without destination coordinates (Skip or a typed
\* address) has estimated_trip_time 0 and the fare estimate of distance 0
\* and 0 minutes; a ride stored with destination coordinates, a latitude or
\* longitude of 0 included, has the trip time and the fare estimate of the
\* distance between its pickup and its drop coordinates.
EstimateFollowsDestination ==
    \A r \in DOMAIN rides :
        LET row == rides[r]
        IN  IF row.drop_lat = NULL \/ row.drop_lng = NULL
            THEN /\ row.estimated_trip_time = 0
                 /\ row.fare_estimate =
                        CalculateFareEstimate(DoubleOfInt(0), 0, row.group_size)
            ELSE LET metres   == CalculateDistance(row.pickup_lat[1], row.pickup_lng[1],
                                                   row.drop_lat[1], row.drop_lng[1])
                     distance == DoubleOfFraction(metres, 1000)
                     minutes  == EstimateTravelTime(distance)
                 IN  /\ row.estimated_trip_time = minutes
                     /\ row.fare_estimate =
                            CalculateFareEstimate(distance, minutes, row.group_size)

\* n / m rounded to the nearest integer, a tie going to the even one
\* (n >= 0, m > 0).
RoundHalfEven(n, m) ==
    LET q == n \div m
        r == n % m
    IN  IF 2 * r > m \/ (2 * r = m /\ q % 2 = 1) THEN q + 1 ELSE q

\* ---------------------------------------------------------------------------
\* C21: calculate_fare_estimate(d, t, g) returns
\* (100 + 50 d + 2 t) (1 + 0.2 (g - 1)) rounded to 2 decimal places, whichever
\* way a tie is rounded; for d = 2.23, t = 4, g = 3 it returns 297.46.
FareIsTheFormula ==
    call.fare # NULL =>
        LET n     == call.distance_km[1]
            den   == call.distance_km[2]
            t     == call.estimated_time_min
            g     == call.group_size
            \* the formula in hundredths is exact / (10 * den)
            exact == (base_fare * den + per_km_rate * n + per_min_rate * t * den)
                         * (10 + 2 * (g - 1)) * 100
        IN  /\ call.fare[1] \in {RoundHalfEven(exact, 10 * den),
                                 (2 * exact + 10 * den) \div (20 * den)}
            /\ (call.distance_km = <<223, 100>> /\ t = 4 /\ g = 3) => call.fare[1] = 29746

\* ---------------------------------------------------------------------------
\* C22: calculate_fare_estimate is monotonically non-decreasing in each of
\* its arguments: a call with a distance, a time and a group size none of
\* which is smaller returns a fare that is not smaller.
FareIsMonotone ==
    call.fare # NULL =>
        \A d \in Distances, t \in Minutes, g \in Groups :
            (/\ call.distance_km[1] * d[2] <= d[1] * call.distance_km[2]
             /\ call.estimated_time_min <= t
             /\ call.group_size <= g)
                => call.fare[1] <= CalculateFareEstimate(DoubleOf(d), t, g)

\* A fare was returned for arguments below other arguments of the sets, in
\* distance, in time and in group size, and the fare of those is higher.
LowerFareSeen ==
    /\ call.fare # NULL
    /\ \E d \in Distances, t \in Minutes, g \in Groups :
           /\ call.distance_km[1] * d[2] < d[1] * call.distance_km[2]
           /\ call.estimated_time_min < t
           /\ call.group_size < g
           /\ call.fare[1] < CalculateFareEstimate(DoubleOf(d), t, g)

\* ---------------------------------------------------------------------------
\* C23: estimate_travel_time(d, s) returns d / s * 60 rounded to the nearest
\* integer, whichever way a tie is rounded, not truncated.
TravelTimeIsNearest ==
    call.minutes # NULL =>
        LET n   == 60 * call.distance_km[1]
            den == call.distance_km[2] * call.avg_speed_kmh
        IN  call.minutes[1] \in {RoundHalfEven(n, den), (2 * n + den) \div (2 * den)}

\* ---------------------------------------------------------------------------
\* C24: driver registration is an idempotent upsert keyed by the telegram
\* id: no step removes a driver or changes a driver's id, no two drivers
\* share an id, and a committed add_or_update_driver call for telegram id u
\* leaves exactly one row for u and every other row as it was; if u had a row
\* its id, status, rating, total_ratings and location are unchanged and each
\* of name, phone and reg_no is the argument, or the stored value when the
\* argument is null.
RegistrationIsIdempotentUpsert ==
    [][/\ \A u \in DOMAIN drivers :
             u \in DOMAIN drivers' /\ drivers'[u].id = drivers[u].id
       /\ \A u, v \in DOMAIN drivers' : drivers'[u].id = drivers'[v].id => u = v
       /\ call' # NoCall =>
             LET u == call'.tg_id
             IN  /\ DOMAIN drivers' = DOMAIN drivers \cup {u}
                 /\ \A v \in DOMAIN drivers \ {u} : drivers'[v] = drivers[v]
                 /\ u \in DOMAIN drivers =>
                       /\ drivers'[u].status = drivers[u].status
                       /\ drivers'[u].rating = drivers[u].rating
                       /\ drivers'[u].total_ratings = drivers[u].total_ratings
                       /\ drivers'[u].lat = drivers[u].lat
                       /\ drivers'[u].lng = drivers[u].lng
                       /\ drivers'[u].name = Coalesce(call'.name, drivers[u].name)
                       /\ drivers'[u].phone = Coalesce(call'.phone, drivers[u].phone)
                       /\ drivers'[u].reg_no = Coalesce(call'.reg_no, drivers[u].reg_no)
      ]_vars

\* A driver who is online, has shared a location and has been rated was
\* registered again, with a new name and no phone number, and still is
\* online, located and rated, with the phone number stored before.
ReRegisteredDriverSeen ==
    /\ call # NoCall
    /\ call.tg_id \in DOMAIN drivers
    /\ call.phone = NULL
    /\ LET row == drivers[call.tg_id]
       IN  /\ row.status = "online"
           /\ row.lat # NULL
           /\ row.total_ratings = 1
           /\ row.phone # NULL
           /\ row.name = <<"Bea">>

\* ---------------------------------------------------------------------------
\* C25: only registered drivers can win a ride: an accept_callback of a user
\* with no driver row ends at the lookup, without a claim and with every
\* ride as it was; no handler of a user with no driver row stands at the
\* claim; and a non-null assigned_driver_id is the id of a row of drivers.
OnlyRegisteredDriversWin ==
    [][/\ \A t \in TaskIds :
             (/\ tasks[t].h \in AcceptHandlers /\ tasks[t].pc = "get_driver"
              /\ tasks'[t] # tasks[t]
              /\ GetDriverByTg(drivers, tasks[t].user) = NULL)
                 => /\ tasks'[t] = Idle
                    /\ reply' = "only_registered_drivers"
                    /\ rides' = rides /\ won' = won /\ lost' = lost
       /\ \A t \in TaskIds :
             tasks'[t].pc = "claim" => GetDriverByTg(drivers', tasks'[t].user) # NULL
       /\ \A r \in DOMAIN rides' :
             rides'[r].assigned_driver_id # NULL
                 => GetDriverById(drivers', rides'[r].assigned_driver_id[1]) # NULL
      ]_vars

\* A user with no driver row has pressed Accept on a ride a registered
\* driver had won, and was turned away.
UnregisteredAcceptRefusedSeen ==
    /\ reply = "only_registered_drivers"
    /\ \E r \in DOMAIN rides : rides[r].assigned_driver_id # NULL

\* ---------------------------------------------------------------------------
\* C26: a searching ride never expires: a ride that is searching and has no
\* driver stays searching and without a driver in every step that is not a
\* step of an accept, a cancel or a complete on that ride, and a claim on it by a registered driver succeeds, whatever has
\* happened to other rides and to drivers before.
SearchingRideNeverExpires ==
    [][\A r \in DOMAIN rides :
          (rides[r].status = "searching" /\ rides[r].assigned_driver_id = NULL) =>
              /\ (\/ rides'[r].status # "searching"
                  \/ rides'[r].assigned_driver_id # NULL) =>
                    \E t \in TaskIds :
                        /\ tasks[t].h \in {"accept", "cancel", "complete"}
                        /\ tasks[t].ride_id = r
                        /\ tasks'[t] # tasks[t]
              /\ \A t \in TaskIds :
                    (IsClaimStep(t) /\ tasks[t].ride_id = r) =>
                        /\ rides'[r].assigned_driver_id = tasks[t].drv
                        /\ rides'[r].status = "assigned"
                        /\ reply' # "already_taken"
      ]_vars

\* A driver has just won a ride that was still searching after another ride
\* had been won, cancelled or completed and a driver had gone online.
LateClaimSeen ==
    \E r \in DOMAIN rides :
        /\ tasks[1].h = "accept" /\ tasks[1].pc = "get_ride" /\ tasks[1].ride_id = r
        /\ rides[r].status = "assigned"
        /\ rides[r].assigned_driver_id = tasks[1].drv
        /\ \E o \in DOMAIN rides \ {r} :
              rides[o].status \in {"driver_assigned", "cancelled", "completed"}
        /\ \E u \in DOMAIN drivers : drivers[u].status = "online"

\* ---------------------------------------------------------------------------
\* C27: rides are independent: a claim, a cancel, a status change or a
\* final-fare write on a ride leaves every other ride as it was, row for
\* row, and leaves every driver row as it was.
RidesAreIndependent ==
    [][/\ DOMAIN rides' = DOMAIN rides
       /\ \A r, o \in DOMAIN rides :
             (rides'[r] # rides[r] /\ o # r) => rides'[o] = rides[o]
       /\ rides' # rides => drivers' = drivers
      ]_vars

\* One ride has been cancelled while unclaimed, another has been claimed,
\* completed and given a final fare, and a driver has gone online.
RidesWentSeparateWaysSeen ==
    \E r, o \in DOMAIN rides :
        /\ rides[r].status = "cancelled" /\ rides[r].assigned_driver_id = NULL
        /\ rides[r].final_fare = NULL
        /\ rides[o].status = "completed" /\ rides[o].assigned_driver_id # NULL
        /\ rides[o].final_fare # NULL /\ rides[o].cancelled_at = NULL
        /\ \E u \in DOMAIN drivers : drivers[u].status = "online"

\* ---------------------------------------------------------------------------
\* C28: a cancel or a complete that commits between the two writes of
\* accept_callback is not lost: the second write, set_ride_status(ride,
\* 'driver_assigned'), leaves a ride that is cancelled or completed by then
\* with that status.
AcceptKeepsCancelAndComplete ==
    [][\A t \in TaskIds :
          (/\ tasks[t].h = "accept" /\ tasks[t].pc = "set_status"
           /\ tasks'[t] # tasks[t]
           /\ tasks[t].ride_id \in DOMAIN rides
           /\ rides[tasks[t].ride_id].status \in {"cancelled", "completed"})
              => rides'[tasks[t].ride_id].status = rides[tasks[t].ride_id].status
      ]_vars

\* ---------------------------------------------------------------------------
\* C29: a drop-off location with coordinates received in state DROP is
\* handled without error: the request has the distance between pickup and
\* drop-off and the trip time of that distance stored, and the conversation
\* is in GROUP once 'How many people in your group?' has been sent.
DropLocationIsHandled ==
    [][\A u \in DOMAIN conv :
          (/\ conv[u] = "DROP"
           /\ reply' \in {"how_many", "raised"}
           /\ Truthy(user_data'[u].drop_lat) /\ Truthy(user_data'[u].drop_lng))
              => LET data   == user_data'[u]
                     metres == CalculateDistance(data.pickup_lat[1], data.pickup_lng[1],
                                                 data.drop_lat[1], data.drop_lng[1])
                 IN  /\ data.distance_km # NULL
                     /\ data.estimated_trip_time =
                            <<EstimateTravelTime(DoubleOfFraction(metres, 1000))>>
                     /\ (reply' = "how_many") = (conv'[u] = "GROUP")
      ]_vars

\* ---------------------------------------------------------------------------
\* C30: only the driver assigned to a ride can complete it: the status write
\* of complete_ride_cmd for a caller who is not the ride's assigned driver
\* leaves the status of the ride as it was.
OnlyAssignedDriverCompletes ==
    [][\A t \in TaskIds :
          (/\ tasks[t].h = "complete" /\ tasks[t].pc = "set_status"
           /\ tasks'[t] # tasks[t]
           /\ tasks[t].ride_id \in DOMAIN rides
           /\ LET drv == GetDriverByTg(drivers, tasks[t].user)
              IN  \/ drv = NULL
                  \/ rides[tasks[t].ride_id].assigned_driver_id # <<drv[1].id>>)
              => rides'[tasks[t].ride_id].status = rides[tasks[t].ride_id].status
      ]_vars


\* ---------------------------------------------------------------------------
\* The step is a step of task t's cancel_trip_callback.
IsCancelStep(t) ==
    /\ tasks[t].h = "cancel"
    /\ tasks'[t] # tasks[t]

\* The columns a cancel writes.
CancelColumns(row) == <<row.status, row.cancelled_at, row.cancelled_by>>

\* C31: only the rider of a ride can cancel it through cancel_trip_callback:
\* a step of the callback invoked by a user who is not the rider of the ride
\* it names, or for a ride id without a row, leaves status, cancelled_at and
\* cancelled_by of every ride as they were and notifies no driver.
OnlyItsRiderCancels ==
    [][\A t \in TaskIds :
          LET r == tasks[t].ride_id IN
          (/\ IsCancelStep(t)
           /\ (~Exists(r) \/ rides[r].rider_tg_id # tasks[t].user))
          => /\ DOMAIN rides' = DOMAIN rides
             /\ \A q \in DOMAIN rides : CancelColumns(rides'[q]) = CancelColumns(rides[q])
             /\ sent' = {}
             /\ tasks'[t] = Idle]_vars

\* A user who is not the rider has pressed Cancel Trip on a ride that has
\* a driver, and the callback is about to fetch the ride.
ForeignCancelSeen ==
    \E t \in TaskIds :
        LET r == tasks[t].ride_id IN
        /\ tasks[t].h = "cancel" /\ tasks[t].pc = "get_ride"
        /\ Exists(r)
        /\ rides[r].rider_tg_id # tasks[t].user
        /\ rides[r].assigned_driver_id # NULL
        /\ rides[r].status \in {"assigned", "driver_assigned"}


\* ---------------------------------------------------------------------------
\* C32: a rating is recorded, and the driver's average updated, only for a
\* ride that is completed at that time: a step of rate_trip_callback for a
\* ride whose status is not completed adds no ratings row and leaves every
\* driver's rating and total_ratings as they were.
OnlyCompletedRidesAreRated ==
    [][\A t \in TaskIds :
          LET r == tasks[t].ride_id IN
          (/\ IsRateStep(t)
           /\ Exists(r)
           /\ rides[r].status # "completed")
          => /\ ratings' = ratings
             /\ \A u \in DOMAIN drivers :
                   /\ drivers'[u].rating = drivers[u].rating
                   /\ drivers'[u].total_ratings = drivers[u].total_ratings]_vars


\* ---------------------------------------------------------------------------
\* C33: in every version of confirm_callback, a confirmation that finds no
\* dispatch channel configured (the caller is told 'Dispatch group not set')
\* creates no ride.
NoRideWithoutDispatchChannel ==
    [][reply' = "dispatch_not_set" => rides' = rides]_vars


\* ---------------------------------------------------------------------------
\* The step stores a ride.
RideIsCreated == Len(rides') > Len(rides)

\* The order in which ride_conv is passed: each state is entered from the
\* one before it only.
ConversationOrder ==
    \A u \in Riders :
        conv'[u] # conv[u] =>
            /\ conv'[u] = "PICKUP" => conv[u] = "END"
            /\ conv'[u] = "DROP" => conv[u] = "PICKUP"
            /\ conv'[u] = "GROUP" => conv[u] = "DROP"
            /\ conv'[u] = "CONFIRM" => conv[u] = "GROUP"

\* A message without a location in state PICKUP (the rider is asked to use
\* the Share Location button) leaves the conversation in PICKUP;
\* 'confirm:no' and /cancel create no ride, and when the rider has been
\* told 'Request cancelled.' the conversation has ended.
RefusalsAndCancellations ==
    /\ reply' = "use_share_location" => (conv' = conv /\ rides' = rides)
    /\ call' = ConfirmCall("confirm:no") => rides' = rides
    /\ reply' = "request_cancelled"
          => /\ rides' = rides
             /\ \E u \in Riders : conv[u] \in ConvStates /\ conv'[u] = "END"

\* C34: a ride is created only by a 'confirm:yes' callback
\* received in state CONFIRM, which is entered only through PICKUP, DROP
\* and GROUP in that order; a message without a location keeps the
\* conversation in PICKUP, and 'confirm:no' and /cancel end the conversation
\* without creating a ride.
RideIsCreatedOnlyByConfirmYes ==
    [][/\ RideIsCreated
          => /\ conv[rides'[Len(rides')].rider_tg_id] = "CONFIRM"
             /\ call' = ConfirmCall("confirm:yes")
       /\ ConversationOrder
       /\ RefusalsAndCancellations]_vars


\* ---------------------------------------------------------------------------
\* C35: the ride stored at confirmation holds only values entered in the
\* conversation that is confirmed, none left in user_data by the rider's
\* earlier request: its pickup is a location shared now, its drop is the
\* location shared or the address typed now or nothing, its group size is
\* the one chosen now, its trip time is the one stored with the distance,
\* and its fare estimate is calculate_fare_estimate of the stored distance,
\* that trip time and that group size.
OnlyCurrentRequestIsStored ==
    [][RideIsCreated =>
          LET row  == rides'[Len(rides')]
              data == user_data[row.rider_tg_id]
          IN  /\ row.pickup_lat # NULL /\ row.pickup_lng # NULL
              /\ <<row.pickup_lat[1], row.pickup_lng[1]>> \in Locations
              /\ \/ row.drop_lat = NULL /\ row.drop_lng = NULL
                 \/ /\ row.drop_lat # NULL /\ row.drop_lng # NULL
                    /\ <<row.drop_lat[1], row.drop_lng[1]>> \in Locations
              /\ row.drop_text \in {NULL} \cup {<<t>> : t \in DropTexts}
              /\ row.group_size \in GroupSizes
              /\ data.distance_km # NULL /\ data.estimated_trip_time # NULL
              /\ row.estimated_trip_time = data.estimated_trip_time[1]
              /\ row.fare_estimate =
                     CalculateFareEstimate(DoubleOfInt(data.distance_km[1]),
                                           row.estimated_trip_time,
                                           row.group_size)]_vars

\* The later request has been confirmed with an address typed anew and a
\* group size chosen anew.
LaterRequestStoredSeen ==
    \E r \in DOMAIN rides :
        /\ rides[r].drop_text = <<"Mall">>
        /\ rides[r].group_size = 3
        /\ rides[r].pickup_lat # NULL
        /\ reply = "searching"


\* ---------------------------------------------------------------------------
\* The callback data of the history call names a user other than the
\* caller: another telegram id as rider, or as driver an id that is not the
\* id of the caller's drivers row.
NamesAnotherUser ==
    IF call.role = "rider" THEN call.uid # call.caller
    ELSE LET drv == GetDriverByTg(drivers, call.caller)
         IN  drv = NULL \/ drv[1].id # call.uid

\* C36: in every ride-history implementation, a pagination callback whose
\* data names another rider's telegram id or another driver's id shows the
\* caller no rides.
OnlyOwnHistoryIsShown ==
    (call.handler # "none" /\ NamesAnotherUser) => call.rows = <<>>


\* ---------------------------------------------------------------------------
\* C37: while a rider pages through their history from page 1 and no ride
\* is created, the page shown is one of 1..total_pages, where total_pages =
\* max(1, ceil(total / 5)); Prev is offered exactly when page > 1 and Next
\* exactly when page < total_pages; and once every page has been looked at,
\* every ride of the rider is on exactly one page.
PagingShowsEveryRideOnce ==
    (call.handler = "bot" /\ reply # "raised") =>
        LET mine        == {r \in DOMAIN rides : rides[r].rider_tg_id = call.caller}
            total_pages == Max(1, CeilDiv(Cardinality(mine), 5))
        IN  /\ call.page \in 1..total_pages
            /\ call.prev <=> call.page > 1
            /\ call.next <=> call.page < total_pages
            /\ DOMAIN call.pages = 1..total_pages
                  => \A r \in mine :
                        Cardinality({pi \in {<<p, i>> : p \in 1..total_pages, i \in 1..PAGE_SIZE} :
                                        /\ pi[2] <= Len(call.pages[pi[1]])
                                        /\ call.pages[pi[1]][pi[2]] = r}) = 1


\* ---------------------------------------------------------------------------
\* C38: assign_driver of src/db.py is a conditional write: applied to a
\* ride that already has a driver, it leaves the ride's driver_id and status
\* as they were, so of two assign_driver calls for one ride only the first
\* takes effect.
AssignDriverIsConditional ==
    [][\A r \in DOMAIN rides :
          (/\ call'.op = "assign_driver"
           /\ call'.ride_id = r
           /\ rides[r].driver_id # NULL)
          => /\ rides'[r].driver_id = rides[r].driver_id
             /\ rides'[r].status = rides[r].status]_vars

=============================================================================
